---- MODULE Spec2Model ----
(***************************************************************************)
(* Model of the ni.datastore client: the per-client moniker-connection     *)
(* cache and its lock, the read path, measurement publishing with its      *)
(* timestamp reconciliation, and the open/closed life cycle of a client.   *)
(***************************************************************************)
EXTENDS Integers, Sequences, FiniteSets, TLC

(* ----------------------------- bounds ---------------------------------- *)
NumThreads == 2
MaxTime == 2
TicksPerSecond == 2
MaxMonikerClients == 5

Threads == 1..NumThreads

(* ------------------------- service locations --------------------------- *)
\* A service location string, kept in its parts: "<scheme>://<authority><path>"
\* when slashes is TRUE, the bare text "<authority>" (e.g. "localhost:50051")
\* when it is FALSE.
Authorities == {"h1:1", "h2:2"}

UrlLocations ==
    { [scheme |-> "http", slashes |-> TRUE, authority |-> a, path |-> ""] :
        a \in Authorities }
    \cup {[scheme |-> "https", slashes |-> TRUE, authority |-> "h1:1", path |-> "/x"]}

BareLocations ==
    { [scheme |-> "", slashes |-> FALSE, authority |-> a, path |-> ""] :
        a \in Authorities }

ServiceLocations == UrlLocations \cup BareLocations

\* urllib.parse.urlparse(service_location).netloc: the text between "//" and
\* the next "/"; empty when the string has no "//" ("localhost:50051" parses
\* as scheme "localhost", path "50051").
urlparse_netloc_full_url(service_location) ==
    IF service_location.slashes
    THEN service_location.scheme \o "://" \o service_location.authority
    ELSE service_location.authority

urlparse_netloc(service_location) ==
    IF service_location.slashes THEN service_location.authority ELSE ""

CacheKeys == Authorities \cup {""}

\* The location of a thread that has no read in progress.
NoLocation == [scheme |-> "", slashes |-> FALSE, authority |-> "", path |-> ""]

(* ------------------------------ time ----------------------------------- *)
\* A native DateTime, counted in ticks since the epoch; NoTimestamp is None.
NoTimestamp == -1
Times == 0..MaxTime

\* PrecisionTimestamp(): the default (all fields zero) protobuf timestamp.
PrecisionTimestamp == [seconds |-> 0, fractional_seconds |-> 0]

\* bintime_datetime_to_protobuf: whole seconds and the fraction of a second.
bintime_datetime_to_protobuf(dt) ==
    [seconds |-> dt \div TicksPerSecond, fractional_seconds |-> dt % TicksPerSecond]

(* ------------------------- errors and values --------------------------- *)
NoError == [type |-> "None", message |-> ""]

\* The error every public operation of a closed client raises.
ClosedClientError == [type |-> "RuntimeError", message |-> "client is closed"]

\* An error raised by the remote transport (the gRPC stub).
RpcError == [type |-> "RpcError", message |-> "transport"]

NoValue == [type |-> "None", dtype |-> ""]

(* --------------------------- publish values ---------------------------- *)
\* A value handed to publish_measurement: its Python type, its element dtype
\* and the start time of its timing (NoTimestamp when it has none).
PrimitiveValues ==
    { [type |-> ty, dtype |-> "", t0 |-> NoTimestamp] :
        ty \in {"bool", "int", "float", "str", "Scalar", "Vector", "XYData", "list"} }

WaveformValues ==
    { [type |-> "AnalogWaveform", dtype |-> d, t0 |-> t] :
        d \in {"float64", "int16", "int32"}, t \in {NoTimestamp} \cup Times }
    \cup
    { [type |-> "ComplexWaveform", dtype |-> d, t0 |-> t] :
        d \in {"complex128", "ComplexInt32Base", "complex64"}, t \in {NoTimestamp} \cup Times }
    \cup
    { [type |-> "DigitalWaveform", dtype |-> "uint8", t0 |-> t] :
        t \in {NoTimestamp} \cup Times }

SpectrumValues ==
    { [type |-> "Spectrum", dtype |-> d, t0 |-> NoTimestamp] : d \in {"float64", "float32"} }

PublishValues == PrimitiveValues \cup WaveformValues \cup SpectrumValues

\* The t0 field of the waveform message a *_waveform_to_protobuf conversion
\* builds: the converted start time, or the default when the waveform has none.
waveform_t0_to_protobuf(value) ==
    IF value.t0 = NoTimestamp THEN PrecisionTimestamp
    ELSE bintime_datetime_to_protobuf(value.t0)

\* A PublishMeasurementRequest: which member of the "value" oneof is set, the
\* t0 of the waveform message in it, and the request's timestamp field.
EmptyRequest ==
    [value_case |-> "None", t0 |-> PrecisionTimestamp, timestamp |-> PrecisionTimestamp]

WithValue(request, value_case, t0) ==
    [request EXCEPT !.value_case = value_case, !.t0 = t0]

\* Client._populate_publish_measurement_request_value: the isinstance chain.
\* The result is the error raised (NoError when none) and the request.
_populate_publish_measurement_request_value(publish_request, value) ==
    LET ok(value_case, t0) ==
            [raised |-> NoError, request |-> WithValue(publish_request, value_case, t0)]
        fail(message) ==
            [raised |-> [type |-> "TypeError", message |-> message],
             request |-> publish_request]
    IN  CASE value.type = "bool" -> ok("scalar.bool_value", PrecisionTimestamp)
          [] value.type = "int" -> ok("scalar.sint32_value", PrecisionTimestamp)
          [] value.type = "float" -> ok("scalar.double_value", PrecisionTimestamp)
          [] value.type = "str" -> ok("scalar.string_value", PrecisionTimestamp)
          [] value.type = "Scalar" -> ok("scalar", PrecisionTimestamp)
          [] value.type = "Vector" -> ok("vector", PrecisionTimestamp)
          [] value.type = "AnalogWaveform" ->
                IF value.dtype = "float64"
                THEN ok("double_analog_waveform", waveform_t0_to_protobuf(value))
                ELSE IF value.dtype = "int16"
                THEN ok("i16_analog_waveform", waveform_t0_to_protobuf(value))
                ELSE fail("Unsupported AnalogWaveform dtype")
          [] value.type = "ComplexWaveform" ->
                IF value.dtype = "complex128"
                THEN ok("double_complex_waveform", waveform_t0_to_protobuf(value))
                ELSE IF value.dtype = "ComplexInt32Base"
                THEN ok("i16_complex_waveform", waveform_t0_to_protobuf(value))
                ELSE fail("Unsupported ComplexWaveform dtype")
          [] value.type = "Spectrum" ->
                IF value.dtype = "float64"
                THEN ok("double_spectrum", PrecisionTimestamp)
                ELSE fail("Unsupported Spectrum dtype")
          [] value.type = "DigitalWaveform" ->
                ok("digital_waveform", waveform_t0_to_protobuf(value))
          [] OTHER -> fail("Unsupported measurement value type")

\* The members of the "value" oneof whose message carries a t0.
WaveformValueCases ==
    {"double_analog_waveform", "i16_analog_waveform", "double_complex_waveform",
     "i16_complex_waveform", "digital_waveform"}

TimestampMismatch ==
    [type |-> "ValueError",
     message |-> "The provided timestamp does not match the waveform t0"]

\* The reconciliation that takes the waveform t0 when the two disagree.
_get_publish_measurement_timestamp_prefers_t0(publish_request, client_provided_timestamp, now) ==
    LET no_client_timestamp_provided == client_provided_timestamp = NoTimestamp
        publish_time ==
            IF no_client_timestamp_provided
            THEN bintime_datetime_to_protobuf(now)
            ELSE bintime_datetime_to_protobuf(client_provided_timestamp)
        has_t0 == publish_request.value_case \in WaveformValueCases
        waveform_t0 == publish_request.t0
    IN  IF has_t0 /\ waveform_t0 # PrecisionTimestamp
        THEN [raised |-> NoError, publish_time |-> waveform_t0]
        ELSE [raised |-> NoError, publish_time |-> publish_time]

\* The reconciliation without the digital_waveform branch.
_get_publish_measurement_timestamp_no_digital(publish_request, client_provided_timestamp, now) ==
    LET no_client_timestamp_provided == client_provided_timestamp = NoTimestamp
        publish_time ==
            IF no_client_timestamp_provided
            THEN bintime_datetime_to_protobuf(now)
            ELSE bintime_datetime_to_protobuf(client_provided_timestamp)
        has_t0 == publish_request.value_case \in WaveformValueCases \ {"digital_waveform"}
        waveform_t0 == publish_request.t0
    IN  IF has_t0 /\ waveform_t0 # PrecisionTimestamp
        THEN IF no_client_timestamp_provided
             THEN [raised |-> NoError, publish_time |-> waveform_t0]
             ELSE IF publish_time # waveform_t0
             THEN [raised |-> TimestampMismatch, publish_time |-> publish_time]
             ELSE [raised |-> NoError, publish_time |-> publish_time]
        ELSE [raised |-> NoError, publish_time |-> publish_time]

\* The reconciliation without the "!= PrecisionTimestamp()" test.
_get_publish_measurement_timestamp_any_t0(publish_request, client_provided_timestamp, now) ==
    LET no_client_timestamp_provided == client_provided_timestamp = NoTimestamp
        publish_time ==
            IF no_client_timestamp_provided
            THEN bintime_datetime_to_protobuf(now)
            ELSE bintime_datetime_to_protobuf(client_provided_timestamp)
        has_t0 == publish_request.value_case \in WaveformValueCases
        waveform_t0 == publish_request.t0
    IN  IF has_t0
        THEN IF no_client_timestamp_provided
             THEN [raised |-> NoError, publish_time |-> waveform_t0]
             ELSE IF publish_time # waveform_t0
             THEN [raised |-> TimestampMismatch, publish_time |-> publish_time]
             ELSE [raised |-> NoError, publish_time |-> publish_time]
        ELSE [raised |-> NoError, publish_time |-> publish_time]

\* Client._get_publish_measurement_timestamp. now is the value DateTime.now
\* returns. The result is the error raised and the publish time.
_get_publish_measurement_timestamp(publish_request, client_provided_timestamp, now) ==
    LET no_client_timestamp_provided == client_provided_timestamp = NoTimestamp
        publish_time ==
            IF no_client_timestamp_provided
            THEN bintime_datetime_to_protobuf(now)
            ELSE bintime_datetime_to_protobuf(client_provided_timestamp)
        has_t0 == publish_request.value_case \in WaveformValueCases
        waveform_t0 == publish_request.t0
    IN  IF has_t0 /\ waveform_t0 # PrecisionTimestamp
        THEN IF no_client_timestamp_provided
             THEN [raised |-> NoError, publish_time |-> waveform_t0]
             ELSE IF publish_time # waveform_t0
             THEN [raised |-> TimestampMismatch, publish_time |-> publish_time]
             ELSE [raised |-> NoError, publish_time |-> publish_time]
        ELSE [raised |-> NoError, publish_time |-> publish_time]

PublishedMeasurement == [type |-> "PublishedMeasurement", dtype |-> ""]

\* publish_measurement that calls the service before it sets the timestamp.
publish_measurement_sends_first(value, timestamp, now, transport_ok) ==
    LET populated == _populate_publish_measurement_request_value(EmptyRequest, value)
        stamped == _get_publish_measurement_timestamp(populated.request, timestamp, now)
    IN  IF populated.raised # NoError
        THEN [raised |-> populated.raised, returned |-> NoValue, sent |-> 0,
              request |-> EmptyRequest]
        ELSE IF ~transport_ok
        THEN [raised |-> RpcError, returned |-> NoValue, sent |-> 1,
              request |-> populated.request]
        ELSE IF stamped.raised # NoError
        THEN [raised |-> stamped.raised, returned |-> NoValue, sent |-> 1,
              request |-> populated.request]
        ELSE [raised |-> NoError, returned |-> PublishedMeasurement, sent |-> 1,
              request |-> populated.request]

\* Client.publish_measurement, after the closed check: populate the value, set
\* the timestamp, then one call of the data store service. transport_ok says
\* whether that call returns or raises. sent counts the requests that reached
\* the service; request is the request as the service saw it.
publish_measurement(value, timestamp, now, transport_ok) ==
    LET populated == _populate_publish_measurement_request_value(EmptyRequest, value)
        stamped == _get_publish_measurement_timestamp(populated.request, timestamp, now)
        request == [populated.request EXCEPT !.timestamp = stamped.publish_time]
    IN  IF populated.raised # NoError
        THEN [raised |-> populated.raised, returned |-> NoValue, sent |-> 0,
              request |-> EmptyRequest]
        ELSE IF stamped.raised # NoError
        THEN [raised |-> stamped.raised, returned |-> NoValue, sent |-> 0,
              request |-> EmptyRequest]
        ELSE IF ~transport_ok
        THEN [raised |-> RpcError, returned |-> NoValue, sent |-> 1, request |-> request]
        ELSE [raised |-> NoError, returned |-> PublishedMeasurement, sent |-> 1,
              request |-> request]

(* ----------------------------- read values ----------------------------- *)
\* The wire messages Client._unpack_data knows, by descriptor full name.
UnpackableTypes ==
    {"DoubleAnalogWaveform", "I16AnalogWaveform", "DoubleComplexWaveform",
     "I16ComplexWaveform", "DoubleSpectrum", "DigitalWaveform", "DoubleXYData",
     "Vector"}

WireTypes == UnpackableTypes \cup {"Scalar", "Unknown"}

data_type_prefix == "type.googleapis.com/"

\* A google.protobuf.Any as read_from_moniker returns it: the type URL, in its
\* prefix and descriptor full name, and whether its bytes parse as that type.
ReadEnvelopes ==
    { [prefix |-> p, full_name |-> n, corrupt |-> c] :
        p \in {data_type_prefix, "example.com/"}, n \in WireTypes, c \in BOOLEAN }

NoEnvelope == [prefix |-> "", full_name |-> "None", corrupt |-> FALSE]

NoMessage == [message_type |-> "None"]

\* Client._unpack_data: compares the whole type URL, then Any.Unpack parses
\* the bytes (ParseFromString raises DecodeError on bytes that do not parse).
_unpack_data(read_value) ==
    IF read_value.prefix = data_type_prefix /\ read_value.full_name \in UnpackableTypes
    THEN IF read_value.corrupt
         THEN [raised |-> [type |-> "DecodeError", message |-> "Error parsing message"],
               unpacked |-> NoMessage]
         ELSE [raised |-> NoError, unpacked |-> [message_type |-> read_value.full_name]]
    ELSE [raised |-> [type |-> "TypeError", message |-> "Unsupported data type URL"],
          unpacked |-> NoMessage]

\* A conversion that decodes DoubleXYData into an XYData by a scheme of its own.
_convert_from_protobuf_guessing_xydata(unpacked_data) ==
    LET value(type, dtype) == [raised |-> NoError, converted |-> [type |-> type, dtype |-> dtype]]
        t == unpacked_data.message_type
    IN  CASE t = "DoubleAnalogWaveform" -> value("AnalogWaveform", "float64")
          [] t = "I16AnalogWaveform" -> value("AnalogWaveform", "int16")
          [] t = "DoubleComplexWaveform" -> value("ComplexWaveform", "complex128")
          [] t = "I16ComplexWaveform" -> value("ComplexWaveform", "ComplexInt32Base")
          [] t = "DoubleSpectrum" -> value("Spectrum", "float64")
          [] t = "DigitalWaveform" -> value("DigitalWaveform", "uint8")
          [] t = "DoubleXYData" -> value("XYData", "float64")
          [] t = "Vector" -> value("Vector", "")
          [] OTHER ->
                [raised |-> [type |-> "TypeError", message |-> "Unsupported unpacked data type"],
                 converted |-> NoValue]

\* Client._convert_from_protobuf: the isinstance chain over the unpacked
\* message; a DoubleXYData message is returned as it is.
_convert_from_protobuf(unpacked_data) ==
    LET value(type, dtype) == [raised |-> NoError, converted |-> [type |-> type, dtype |-> dtype]]
        t == unpacked_data.message_type
    IN  CASE t = "DoubleAnalogWaveform" -> value("AnalogWaveform", "float64")
          [] t = "I16AnalogWaveform" -> value("AnalogWaveform", "int16")
          [] t = "DoubleComplexWaveform" -> value("ComplexWaveform", "complex128")
          [] t = "I16ComplexWaveform" -> value("ComplexWaveform", "ComplexInt32Base")
          [] t = "DoubleSpectrum" -> value("Spectrum", "float64")
          [] t = "DigitalWaveform" -> value("DigitalWaveform", "uint8")
          [] t = "DoubleXYData" -> value("DoubleXYData", "protobuf")
          [] t = "Vector" -> value("Vector", "")
          [] OTHER ->
                [raised |-> [type |-> "TypeError", message |-> "Unsupported unpacked data type"],
                 converted |-> NoValue]

\* The expected_type argument of read_data; NoType is None.
NoType == "None"
ExpectedTypes == {NoType, "AnalogWaveform", "Vector", "XYData"}

\* A read that reconstructs the kind the caller expects, when one is given.
read_from_moniker_and_convert_by_expected_type(read_value, expected_type, transport_ok) ==
    LET unpacked == _unpack_data(read_value)
        converted == _convert_from_protobuf(unpacked.unpacked)
    IN  IF ~transport_ok
        THEN [raised |-> RpcError, returned |-> NoValue, sent |-> 1]
        ELSE IF expected_type # NoType
        THEN [raised |-> NoError, returned |-> [type |-> expected_type, dtype |-> ""],
              sent |-> 1]
        ELSE IF unpacked.raised # NoError
        THEN [raised |-> unpacked.raised, returned |-> NoValue, sent |-> 1]
        ELSE IF converted.raised # NoError
        THEN [raised |-> converted.raised, returned |-> NoValue, sent |-> 1]
        ELSE [raised |-> NoError, returned |-> converted.converted, sent |-> 1]

\* A read that returns the reconstructed value without comparing it.
read_from_moniker_and_convert_unchecked(read_value, expected_type, transport_ok) ==
    LET unpacked == _unpack_data(read_value)
        converted == _convert_from_protobuf(unpacked.unpacked)
    IN  IF ~transport_ok
        THEN [raised |-> RpcError, returned |-> NoValue, sent |-> 1]
        ELSE IF unpacked.raised # NoError
        THEN [raised |-> unpacked.raised, returned |-> NoValue, sent |-> 1]
        ELSE IF converted.raised # NoError
        THEN [raised |-> converted.raised, returned |-> NoValue, sent |-> 1]
        ELSE [raised |-> NoError, returned |-> converted.converted, sent |-> 1]

\* A read that asks the moniker service again when the first call fails.
read_from_moniker_and_convert_retry(read_value, expected_type, transport_ok) ==
    LET unpacked == _unpack_data(read_value)
        converted == _convert_from_protobuf(unpacked.unpacked)
    IN  IF ~transport_ok
        THEN [raised |-> RpcError, returned |-> NoValue, sent |-> 2]
        ELSE IF unpacked.raised # NoError
        THEN [raised |-> unpacked.raised, returned |-> NoValue, sent |-> 1]
        ELSE IF converted.raised # NoError
        THEN [raised |-> converted.raised, returned |-> NoValue, sent |-> 1]
        ELSE IF expected_type # NoType /\ converted.converted.type # expected_type
        THEN [raised |-> [type |-> "TypeError", message |-> "Expected type"],
              returned |-> NoValue, sent |-> 1]
        ELSE [raised |-> NoError, returned |-> converted.converted, sent |-> 1]

\* Client.read_data from the remote read on (lines 270-276): one
\* read_from_moniker call, which returns read_value or raises when
\* transport_ok is FALSE, then unpack, convert and the expected_type check.
read_from_moniker_and_convert(read_value, expected_type, transport_ok) ==
    LET unpacked == _unpack_data(read_value)
        converted == _convert_from_protobuf(unpacked.unpacked)
    IN  IF ~transport_ok
        THEN [raised |-> RpcError, returned |-> NoValue, sent |-> 1]
        ELSE IF unpacked.raised # NoError
        THEN [raised |-> unpacked.raised, returned |-> NoValue, sent |-> 1]
        ELSE IF converted.raised # NoError
        THEN [raised |-> converted.raised, returned |-> NoValue, sent |-> 1]
        ELSE IF expected_type # NoType /\ converted.converted.type # expected_type
        THEN [raised |-> [type |-> "TypeError", message |-> "Expected type"],
              returned |-> NoValue, sent |-> 1]
        ELSE [raised |-> NoError, returned |-> converted.converted, sent |-> 1]

(* --------------------------- batch publish ----------------------------- *)
\* The values argument of a batch publish: its class, the classes of its
\* elements in order, and the units of a Vector. A Vector is homogeneous
\* and not empty; a list or tuple may be empty, mixed or nested.
PrimitiveKinds == {"bool", "int", "float", "str"}

VectorValues ==
    { [type |-> "Vector", elements |-> <<k, k>>, units |-> u] :
        k \in PrimitiveKinds, u \in {"", "fake_units"} }

SequenceValues ==
    { [type |-> ty, elements |-> e, units |-> ""] :
        ty \in {"list", "tuple"},
        e \in {<<>>} \cup { <<k, k>> : k \in PrimitiveKinds }
              \cup { <<"list", "list">>, <<"int", "str">> } }

BatchValues ==
    VectorValues \cup SequenceValues
    \cup { [type |-> "int", elements |-> <<>>, units |-> ""] }

\* The scalar_values field of a batch request: the array member that is set,
\* its elements and the NI_UnitDescription attribute.
NoArray == [array_case |-> "None", values |-> <<>>, units |-> ""]

EmptyBatchRequest == [scalar_values |-> NoArray]

\* vector_to_protobuf: the array member is chosen by the element kind.
vector_to_protobuf(values) ==
    [array_case |->
        CASE values.elements[1] = "bool" -> "bool_array"
          [] values.elements[1] = "int" -> "sint32_array"
          [] values.elements[1] = "float" -> "double_array"
          [] values.elements[1] = "str" -> "string_array",
     values |-> values.elements,
     units |-> values.units]

\* Client._populate_publish_condition_batch_request_values
_populate_publish_condition_batch_request_values(publish_request, values) ==
    IF values.type = "Vector"
    THEN [raised |-> NoError,
          request |-> [publish_request EXCEPT !.scalar_values = vector_to_protobuf(values)]]
    ELSE [raised |-> [type |-> "TypeError", message |-> "Unsupported condition values type"],
          request |-> publish_request]

\* Client._populate_publish_measurement_batch_request_values
_populate_publish_measurement_batch_request_values(publish_request, values) ==
    IF values.type = "Vector"
    THEN [raised |-> NoError,
          request |-> [publish_request EXCEPT !.scalar_values = vector_to_protobuf(values)]]
    ELSE [raised |-> [type |-> "TypeError", message |-> "Unsupported measurement values type"],
          request |-> publish_request]

\* Client.publish_condition_batch: populate the values, one call of the service.
publish_condition_batch(values, transport_ok) ==
    LET populated == _populate_publish_condition_batch_request_values(EmptyBatchRequest, values)
    IN  IF populated.raised # NoError
        THEN [raised |-> populated.raised, returned |-> NoValue, sent |-> 0,
              request |-> EmptyBatchRequest]
        ELSE IF ~transport_ok
        THEN [raised |-> RpcError, returned |-> NoValue, sent |-> 1,
              request |-> populated.request]
        ELSE [raised |-> NoError, returned |-> [type |-> "PublishedCondition", dtype |-> ""],
              sent |-> 1, request |-> populated.request]

\* Client.publish_measurement_batch, with no timestamps given.
publish_measurement_batch(values, transport_ok) ==
    LET populated == _populate_publish_measurement_batch_request_values(EmptyBatchRequest, values)
    IN  IF populated.raised # NoError
        THEN [raised |-> populated.raised, returned |-> NoValue, sent |-> 0,
              request |-> EmptyBatchRequest]
        ELSE IF ~transport_ok
        THEN [raised |-> RpcError, returned |-> NoValue, sent |-> 1,
              request |-> populated.request]
        ELSE [raised |-> NoError, returned |-> [type |-> "PublishedMeasurements", dtype |-> ""],
              sent |-> 1, request |-> populated.request]

(* --------------------- publish converter registry ---------------------- *)
\* The class of a value handed to the conversion module: the module that
\* defines it and its name. ClassModule gives the module of the classes the
\* converters are written for.
ClassModule(name) ==
    CASE name \in {"bool", "int", "float", "str", "list", "NoneType"} -> "builtins"
      [] name = "Scalar" -> "nitypes.scalar"
      [] name = "Vector" -> "nitypes.vector"
      [] name = "XYData" -> "nitypes.xy_data"
      [] OTHER -> "nitypes.waveform"

\* Every value of PublishValues with the module of its class, and values whose
\* class only resembles a registered one: a subclass of int, and a class
\* named Vector that another module defines.
ConverterValues ==
    { [type |-> v.type, dtype |-> v.dtype, t0 |-> v.t0, module |-> ClassModule(v.type)] :
        v \in PublishValues }
    \cup
    { [type |-> "IntEnum", dtype |-> "", t0 |-> NoTimestamp, module |-> "enum"],
      [type |-> "NoneType", dtype |-> "", t0 |-> NoTimestamp, module |-> "builtins"],
      [type |-> "Vector", dtype |-> "", t0 |-> NoTimestamp, module |-> "mylib"] }

\* conversion._PUBLISH_CONVERTERS, in the order of the list.
_PUBLISH_CONVERTERS ==
    << "BoolPublishConverter", "AnalogWaveformPublishConverter",
       "ComplexWaveformPublishConverter", "DigitalWaveformPublishConverter",
       "IntPublishConverter", "FloatPublishConverter", "StringPublishConverter",
       "ScalarPublishConverter", "VectorPublishConverter", "SpectrumPublishConverter" >>

\* PublishConverter.python_type of each converter class.
python_type(converter) ==
    CASE converter = "BoolPublishConverter" -> [module |-> "builtins", name |-> "bool"]
      [] converter = "IntPublishConverter" -> [module |-> "builtins", name |-> "int"]
      [] converter = "FloatPublishConverter" -> [module |-> "builtins", name |-> "float"]
      [] converter = "StringPublishConverter" -> [module |-> "builtins", name |-> "str"]
      [] converter = "ScalarPublishConverter" -> [module |-> "nitypes.scalar", name |-> "Scalar"]
      [] converter = "VectorPublishConverter" -> [module |-> "nitypes.vector", name |-> "Vector"]
      [] converter = "VectorPublishBatchConverter" ->
            [module |-> "nitypes.vector", name |-> "Vector"]
      [] converter = "AnalogWaveformPublishConverter" ->
            [module |-> "nitypes.waveform", name |-> "AnalogWaveform"]
      [] converter = "ComplexWaveformPublishConverter" ->
            [module |-> "nitypes.waveform", name |-> "ComplexWaveform"]
      [] converter = "SpectrumPublishConverter" ->
            [module |-> "nitypes.waveform", name |-> "Spectrum"]
      [] converter = "DigitalWaveformPublishConverter" ->
            [module |-> "nitypes.waveform", name |-> "DigitalWaveform"]

\* PublishConverter.python_typename: "{module}.{name}" of python_type.
python_typename(converter) ==
    python_type(converter).module \o "." \o python_type(converter).name

\* A dict comprehension {entry.python_typename: entry for entry in entries}:
\* of two entries with one key the later one stays.
DictByTypename(entries) ==
    [ typename \in { python_typename(entries[i]) : i \in 1..Len(entries) } |->
        LET last == CHOOSE i \in 1..Len(entries) :
                        /\ python_typename(entries[i]) = typename
                        /\ \A j \in 1..Len(entries) :
                              python_typename(entries[j]) = typename => j <= i
        IN  entries[last] ]

_PUBLISH_CONVERTERS_BY_PYTHON_TYPE == DictByTypename(_PUBLISH_CONVERTERS)

\* A type string that matches on the class name alone.
_get_type_string_name_only(python_value) ==
    LET same_name == { c \in DOMAIN _PUBLISH_CONVERTERS_BY_PYTHON_TYPE :
                        \E i \in 1..Len(_PUBLISH_CONVERTERS) :
                            /\ python_typename(_PUBLISH_CONVERTERS[i]) = c
                            /\ python_type(_PUBLISH_CONVERTERS[i]).name = python_value.type }
    IN  IF same_name = {} THEN python_value.module \o "." \o python_value.type
        ELSE CHOOSE c \in same_name : TRUE

\* conversion._get_type_string: "{module}.{name}" of the value's own class.
_get_type_string(python_value) == python_value.module \o "." \o python_value.type

NoConverter == "None"

\* conversion._get_publish_converter: the membership test and the lookup.
_get_publish_converter(python_value) ==
    LET type_string == _get_type_string(python_value)
    IN  IF type_string \notin DOMAIN _PUBLISH_CONVERTERS_BY_PYTHON_TYPE
        THEN [raised |-> [type |-> "TypeError",
                          message |-> "Invalid publish converter type string"],
              converter |-> NoConverter]
        ELSE [raised |-> NoError,
              converter |-> _PUBLISH_CONVERTERS_BY_PYTHON_TYPE[type_string]]

\* The result of a converter's populate method: the error and the request.
Populated(publish_request, value_case, t0) ==
    [raised |-> NoError, request |-> WithValue(publish_request, value_case, t0)]

NotPopulated(publish_request, message) ==
    [raised |-> [type |-> "TypeError", message |-> message], request |-> publish_request]

\* An analog converter that sends every dtype as the double message.
AnalogWaveformPublishConverter_populate_always_double(publish_request, value) ==
    Populated(publish_request, "double_analog_waveform", waveform_t0_to_protobuf(value))

\* AnalogWaveformPublishConverter.populate_publish_measurement_request_value
AnalogWaveformPublishConverter_populate(publish_request, value) ==
    IF value.dtype = "float64"
    THEN Populated(publish_request, "double_analog_waveform", waveform_t0_to_protobuf(value))
    ELSE IF value.dtype = "int16"
    THEN Populated(publish_request, "i16_analog_waveform", waveform_t0_to_protobuf(value))
    ELSE NotPopulated(publish_request, "Unsupported AnalogWaveform dtype")

\* ComplexWaveformPublishConverter.populate_publish_measurement_request_value
ComplexWaveformPublishConverter_populate(publish_request, value) ==
    IF value.dtype = "complex128"
    THEN Populated(publish_request, "double_complex_waveform", waveform_t0_to_protobuf(value))
    ELSE IF value.dtype = "ComplexInt32Base"
    THEN Populated(publish_request, "i16_complex_waveform", waveform_t0_to_protobuf(value))
    ELSE NotPopulated(publish_request, "Unsupported ComplexWaveform dtype")

\* SpectrumPublishConverter.populate_publish_measurement_request_value
SpectrumPublishConverter_populate(publish_request, value) ==
    IF value.dtype = "float64"
    THEN Populated(publish_request, "double_spectrum", PrecisionTimestamp)
    ELSE NotPopulated(publish_request, "Unsupported Spectrum dtype")

\* converter.populate_publish_measurement_request_value, by converter class.
converter_populate_publish_measurement_request_value(converter, publish_request, value) ==
    CASE converter = "BoolPublishConverter" ->
            Populated(publish_request, "scalar.bool_value", PrecisionTimestamp)
      [] converter = "IntPublishConverter" ->
            Populated(publish_request, "scalar.sint32_value", PrecisionTimestamp)
      [] converter = "FloatPublishConverter" ->
            Populated(publish_request, "scalar.double_value", PrecisionTimestamp)
      [] converter = "StringPublishConverter" ->
            Populated(publish_request, "scalar.string_value", PrecisionTimestamp)
      [] converter = "ScalarPublishConverter" ->
            Populated(publish_request, "scalar", PrecisionTimestamp)
      [] converter = "VectorPublishConverter" ->
            Populated(publish_request, "vector", PrecisionTimestamp)
      [] converter = "AnalogWaveformPublishConverter" ->
            AnalogWaveformPublishConverter_populate(publish_request, value)
      [] converter = "ComplexWaveformPublishConverter" ->
            ComplexWaveformPublishConverter_populate(publish_request, value)
      [] converter = "SpectrumPublishConverter" ->
            SpectrumPublishConverter_populate(publish_request, value)
      [] converter = "DigitalWaveformPublishConverter" ->
            Populated(publish_request, "digital_waveform", waveform_t0_to_protobuf(value))

\* conversion.populate_publish_measurement_request_value: find the converter,
\* then let it populate the request.
populate_publish_measurement_request_value(publish_request, value) ==
    LET found == _get_publish_converter(value)
    IN  IF found.raised # NoError
        THEN [raised |-> found.raised, request |-> publish_request,
              converter |-> NoConverter]
        ELSE LET populated == converter_populate_publish_measurement_request_value(
                                   found.converter, publish_request, value)
             IN  [raised |-> populated.raised, request |-> populated.request,
                  converter |-> found.converter]

(* -------------------------- condition publish -------------------------- *)
\* A PublishConditionRequest: which member of its scalar value is set.
EmptyConditionRequest == [value_case |-> "None"]

ConditionPopulated(publish_request, value_case) ==
    [raised |-> NoError, request |-> [publish_request EXCEPT !.value_case = value_case]]

\* Client._populate_publish_condition_request_value: the isinstance chain.
_populate_publish_condition_request_value(publish_request, value) ==
    CASE value.type = "bool" -> ConditionPopulated(publish_request, "scalar.bool_value")
      [] value.type = "int" -> ConditionPopulated(publish_request, "scalar.sint32_value")
      [] value.type = "float" -> ConditionPopulated(publish_request, "scalar.double_value")
      [] value.type = "str" -> ConditionPopulated(publish_request, "scalar.string_value")
      [] value.type = "Scalar" -> ConditionPopulated(publish_request, "scalar")
      [] OTHER -> NotPopulated(publish_request, "Unsupported condition value type")

\* Condition converters that publish the first element of a Vector or the
\* first sample of a waveform as a scalar.
converter_populate_publish_condition_request_value_degrading(converter, publish_request, value) ==
    CASE converter = "BoolPublishConverter" ->
            ConditionPopulated(publish_request, "scalar.bool_value")
      [] converter = "IntPublishConverter" ->
            ConditionPopulated(publish_request, "scalar.sint32_value")
      [] converter = "StringPublishConverter" ->
            ConditionPopulated(publish_request, "scalar.string_value")
      [] converter = "ScalarPublishConverter" -> ConditionPopulated(publish_request, "scalar")
      [] OTHER -> ConditionPopulated(publish_request, "scalar.double_value")

\* converter.populate_publish_condition_request_value, by converter class.
converter_populate_publish_condition_request_value(converter, publish_request, value) ==
    CASE converter = "BoolPublishConverter" ->
            ConditionPopulated(publish_request, "scalar.bool_value")
      [] converter = "IntPublishConverter" ->
            ConditionPopulated(publish_request, "scalar.sint32_value")
      [] converter = "FloatPublishConverter" ->
            ConditionPopulated(publish_request, "scalar.double_value")
      [] converter = "StringPublishConverter" ->
            ConditionPopulated(publish_request, "scalar.string_value")
      [] converter = "ScalarPublishConverter" -> ConditionPopulated(publish_request, "scalar")
      [] converter \in {"VectorPublishConverter", "AnalogWaveformPublishConverter",
                        "ComplexWaveformPublishConverter", "SpectrumPublishConverter",
                        "DigitalWaveformPublishConverter"} ->
            NotPopulated(publish_request, "Invalid condition request value type")

\* conversion.populate_publish_condition_request_value
populate_publish_condition_request_value(publish_request, value) ==
    LET found == _get_publish_converter(value)
    IN  IF found.raised # NoError
        THEN [raised |-> found.raised, request |-> publish_request,
              converter |-> NoConverter]
        ELSE LET populated == converter_populate_publish_condition_request_value(
                                   found.converter, publish_request, value)
             IN  [raised |-> populated.raised, request |-> populated.request,
                  converter |-> found.converter]

\* Client.publish_condition: populate the value, one call of the service.
publish_condition(value, transport_ok) ==
    LET populated == _populate_publish_condition_request_value(EmptyConditionRequest, value)
    IN  IF populated.raised # NoError
        THEN [raised |-> populated.raised, returned |-> NoValue, sent |-> 0,
              request |-> EmptyConditionRequest]
        ELSE IF ~transport_ok
        THEN [raised |-> RpcError, returned |-> NoValue, sent |-> 1,
              request |-> populated.request]
        ELSE [raised |-> NoError, returned |-> [type |-> "PublishedCondition", dtype |-> ""],
              sent |-> 1, request |-> populated.request]

(* ----------------------- read converter registry ----------------------- *)
\* conversion._READ_CONVERTERS, in the order of the list.
_READ_CONVERTERS ==
    << "DoubleAnalogWaveformReadConverter", "DoubleComplexWaveformReadConverter",
       "DoubleSpectrumReadConverter", "DigitalWaveformReadConverter",
       "I16AnalogWaveformReadConverter", "I16ComplexWaveformReadConverter",
       "ScalarReadConverter", "VectorReadConverter" >>

\* ReadConverter.protobuf_typename: the descriptor's full name of the
\* converter's protobuf_message.
protobuf_typename(converter) ==
    CASE converter = "DoubleAnalogWaveformReadConverter" -> "DoubleAnalogWaveform"
      [] converter = "I16AnalogWaveformReadConverter" -> "I16AnalogWaveform"
      [] converter = "DoubleComplexWaveformReadConverter" -> "DoubleComplexWaveform"
      [] converter = "I16ComplexWaveformReadConverter" -> "I16ComplexWaveform"
      [] converter = "DoubleSpectrumReadConverter" -> "DoubleSpectrum"
      [] converter = "DigitalWaveformReadConverter" -> "DigitalWaveform"
      [] converter = "ScalarReadConverter" -> "Scalar"
      [] converter = "VectorReadConverter" -> "Vector"

_READ_CONVERTERS_BY_PROTOBUF_TYPE ==
    [ typename \in { protobuf_typename(_READ_CONVERTERS[i]) : i \in 1..Len(_READ_CONVERTERS) } |->
        LET last == CHOOSE i \in 1..Len(_READ_CONVERTERS) :
                        /\ protobuf_typename(_READ_CONVERTERS[i]) = typename
                        /\ \A j \in 1..Len(_READ_CONVERTERS) :
                              protobuf_typename(_READ_CONVERTERS[j]) = typename => j <= i
        IN  _READ_CONVERTERS[last] ]

\* Read converters that all rebuild float64 data.
to_python_value_always_float64(converter) ==
    CASE converter \in {"DoubleAnalogWaveformReadConverter", "I16AnalogWaveformReadConverter"} ->
            [type |-> "AnalogWaveform", dtype |-> "float64"]
      [] converter \in {"DoubleComplexWaveformReadConverter", "I16ComplexWaveformReadConverter"} ->
            [type |-> "ComplexWaveform", dtype |-> "complex128"]
      [] converter = "DoubleSpectrumReadConverter" -> [type |-> "Spectrum", dtype |-> "float64"]
      [] converter = "DigitalWaveformReadConverter" ->
            [type |-> "DigitalWaveform", dtype |-> "uint8"]
      [] converter = "ScalarReadConverter" -> [type |-> "Scalar", dtype |-> ""]
      [] converter = "VectorReadConverter" -> [type |-> "Vector", dtype |-> ""]

\* The to_python_value method of each read converter class.
to_python_value(converter) ==
    CASE converter = "DoubleAnalogWaveformReadConverter" ->
            [type |-> "AnalogWaveform", dtype |-> "float64"]
      [] converter = "I16AnalogWaveformReadConverter" ->
            [type |-> "AnalogWaveform", dtype |-> "int16"]
      [] converter = "DoubleComplexWaveformReadConverter" ->
            [type |-> "ComplexWaveform", dtype |-> "complex128"]
      [] converter = "I16ComplexWaveformReadConverter" ->
            [type |-> "ComplexWaveform", dtype |-> "ComplexInt32Base"]
      [] converter = "DoubleSpectrumReadConverter" -> [type |-> "Spectrum", dtype |-> "float64"]
      [] converter = "DigitalWaveformReadConverter" ->
            [type |-> "DigitalWaveform", dtype |-> "uint8"]
      [] converter = "ScalarReadConverter" -> [type |-> "Scalar", dtype |-> ""]
      [] converter = "VectorReadConverter" -> [type |-> "Vector", dtype |-> ""]

\* Any.TypeName(): the part of the type URL after the last "/".
TypeName(protobuf_any) == protobuf_any.full_name

UnpackFailure == [type |-> "ValueError", message |-> "Failed to unpack Any with type"]
DecodeError == [type |-> "DecodeError", message |-> "Error parsing message"]

\* An unpack step that reports every failure as a missing converter.
to_python_key_error(converter, protobuf_value) ==
    IF TypeName(protobuf_value) # protobuf_typename(converter) \/ protobuf_value.corrupt
    THEN [raised |-> [type |-> "KeyError", message |-> TypeName(protobuf_value)],
          returned |-> NoValue]
    ELSE [raised |-> NoError, returned |-> to_python_value(converter)]

\* ReadConverter.to_python: Any.Unpack returns False when the envelope is of
\* another message type and parses the bytes otherwise (ParseFromString
\* raises DecodeError on bytes that do not parse).
to_python(converter, protobuf_value) ==
    LET is_message == TypeName(protobuf_value) = protobuf_typename(converter)
        did_unpack == is_message
    IN  IF is_message /\ protobuf_value.corrupt
        THEN [raised |-> DecodeError, returned |-> NoValue]
        ELSE IF ~did_unpack
        THEN [raised |-> UnpackFailure, returned |-> NoValue]
        ELSE [raised |-> NoError, returned |-> to_python_value(converter)]

\* conversion.convert_from_protobuf: the isinstance test (NoEnvelope stands
\* for an object that is no Any), the dict lookup, which raises KeyError for a
\* type name that is no key, and the converter's to_python.
convert_from_protobuf(protobuf_any) ==
    IF protobuf_any = NoEnvelope
    THEN [raised |-> [type |-> "ValueError", message |-> "Unexpected type"],
          returned |-> NoValue, converter |-> NoConverter]
    ELSE LET underlying_typename == TypeName(protobuf_any)
         IN  IF underlying_typename \notin DOMAIN _READ_CONVERTERS_BY_PROTOBUF_TYPE
             THEN [raised |-> [type |-> "KeyError", message |-> underlying_typename],
                   returned |-> NoValue, converter |-> NoConverter]
             ELSE LET converter == _READ_CONVERTERS_BY_PROTOBUF_TYPE[underlying_typename]
                      result == to_python(converter, protobuf_any)
                  IN  [raised |-> result.raised, returned |-> result.returned,
                       converter |-> converter]

(* ------------------------------- state --------------------------------- *)
VARIABLES
    _closed,                                \* the client's open/closed state
    _moniker_clients_by_service_location,   \* cache: key -> index in monikerClients
    _moniker_clients_lock,                  \* 0 when free, else the holding thread
    monikerClients,                         \* every MonikerClient object, in creation order
    storeCloses,                            \* close() calls on the store service client
    heldAtClose,                            \* history: the connections cached when close ran
    pc,                                     \* each thread's position in read_data
    rd,                                     \* each thread's read_data locals
    lastCall                                \* the most recently completed public call

\* The state of the package's other modules.
VARIABLES
    readConverterRegistry,                  \* conversion._READ_CONVERTERS_BY_PROTOBUF_TYPE, the dict object
    lookups,                                \* each thread's position in convert_from_protobuf
    _step_ids_by_test,                      \* DigitalThreadPublisher: test name -> step id
    current_step_id,                        \* DigitalThreadPublisher: 0 stands for ""
    createdSteps,                           \* the steps create_step made, in creation order
    lastTest,                               \* the most recent call of a decorated test
    _cached_token,                          \* JwtTokenProvider
    clock,                                  \* time.time()
    lastToken,                              \* the most recent get_token call
    environ,                                \* os.environ, the six variables
    _original_environment,                  \* DataStoreContext
    contextLog                              \* history of the context's calls

registryVars == <<readConverterRegistry, lookups>>
testingVars == <<_step_ids_by_test, current_step_id, createdSteps, lastTest>>
authVars == <<_cached_token, clock, lastToken>>
contextVars == <<environ, _original_environment, contextLog>>
otherVars == <<registryVars, testingVars, authVars, contextVars>>

clientVars ==
    <<_closed, _moniker_clients_by_service_location, _moniker_clients_lock,
      monikerClients, storeCloses, heldAtClose, pc, rd>>

vars ==
    <<_closed, _moniker_clients_by_service_location, _moniker_clients_lock,
      monikerClients, storeCloses, heldAtClose, pc, rd, lastCall, otherVars>>

(* ------------------- conversion: the registry object ------------------- *)
\* A thread that is not inside convert_from_protobuf.
NoLookup == [pc |-> "idle", protobuf_any |-> NoEnvelope, converter |-> NoConverter]

\* A mapping that adds an entry for a key it does not have when indexed.
dict_getitem_defaultdict(dict, key) ==
    IF key \in DOMAIN dict
    THEN [raised |-> NoError, value |-> dict[key], dict |-> dict]
    ELSE [raised |-> NoError, value |-> NoConverter,
          dict |-> [k \in DOMAIN dict \cup {key} |->
                        IF k \in DOMAIN dict THEN dict[k] ELSE NoConverter]]

\* Indexing the dict: KeyError for a key it does not have; the dict is the
\* same afterwards.
dict_getitem(dict, key) ==
    IF key \in DOMAIN dict
    THEN [raised |-> NoError, value |-> dict[key], dict |-> dict]
    ELSE [raised |-> [type |-> "KeyError", message |-> key], value |-> NoConverter,
          dict |-> dict]

\* The module's import: the dict built from the converter list.
RegistryInit ==
    /\ readConverterRegistry = _READ_CONVERTERS_BY_PROTOBUF_TYPE
    /\ lookups = [t \in Threads |-> NoLookup]

\* The moniker_source argument of read_data: a Moniker, or a record that
\* holds one; any other object leaves the local "moniker" unbound.
MonikerSourceTypes == {"Moniker", "PublishedMeasurement", "PublishedCondition"}

MonikerSources(locations, source_types) ==
    { [source_type |-> st, service_location |-> l] : st \in source_types, l \in locations }

NoLocals ==
    [service_location |-> NoLocation, expected_type |-> NoType,
     parsed_service_location |-> "", moniker_client |-> 0, first_use |-> FALSE,
     after_close |-> FALSE]

NoCall ==
    [op |-> "None", afterClose |-> FALSE, raised |-> NoError,
     returned |-> NoValue, sentStore |-> 0, sentMoniker |-> 0,
     value |-> [type |-> "None", dtype |-> "", t0 |-> NoTimestamp],
     timestamp |-> NoTimestamp, now |-> NoTimestamp, request |-> EmptyRequest,
     read_value |-> NoEnvelope, expected_type |-> NoType,
     transport_ok |-> TRUE, converter |-> "None"]

\* A public operation called on a closed client.
ClosedCall(op) ==
    [NoCall EXCEPT !.op = op, !.afterClose = TRUE,
                   !.raised = ClosedClientError]

\* Client.__init__: the caller may hand in a cache (as the unit tests do, with
\* one mocked MonikerClient); otherwise it starts empty.
EmptyCache == [k \in {} |-> 0]

InjectedCaches ==
    {EmptyCache} \cup { [k \in {key} |-> 1] : key \in {"h1:1"} }

(* ------------------ testing: publish_test_to_datastore ----------------- *)
MaxCreatedSteps == 4

\* Argument values: the publisher fixture, values of the scalar types, and an
\* object of another type.
Publisher == [type |-> "DigitalThreadPublisher", repr |-> "publisher"]
ArgumentValues ==
    { Publisher,
      [type |-> "int", repr |-> "5"], [type |-> "float", repr |-> "3.3"],
      [type |-> "list", repr |-> "[1, 2]"] }

\* Decorated functions: __name__, the parameter names of the signature and
\* the value the body returns.
TestFunctions ==
    { [name |-> "sample_test", params |-> <<>>, returns |-> "test_result"],
      [name |-> "test_voltage", params |-> <<"publisher", "voltage">>, returns |-> "None"],
      [name |-> "test_current", params |-> <<"current", "publisher">>, returns |-> "None"] }

\* Calls: positional arguments and keyword arguments (in the order given).
TestCalls ==
    { [args |-> <<>>, kwargs |-> <<>>] }
    \cup { [args |-> <<a, b>>, kwargs |-> <<>>] : a, b \in ArgumentValues }
    \cup { [args |-> <<>>, kwargs |-> <<[name |-> "publisher", value |-> Publisher],
                                       [name |-> n, value |-> v]>>] :
             n \in {"voltage", "current"}, v \in ArgumentValues \ {Publisher} }
    \cup { [args |-> <<a>>, kwargs |-> <<>>] : a \in ArgumentValues \ {Publisher} }

\* A decorated function that always makes a step for the call.
step_is_cached_never(name, step_ids_by_test) == FALSE

\* Line 57: func.__name__ in publisher._step_ids_by_test.
step_is_cached(name, step_ids_by_test) == name \in DOMAIN step_ids_by_test

\* Lines 38-47: the first positional argument that is a DigitalThreadPublisher,
\* else the first such keyword value.
find_publisher(args, kwargs) ==
    \/ \E i \in 1..Len(args) : args[i].type = "DigitalThreadPublisher"
    \/ \E i \in 1..Len(kwargs) : kwargs[i].value.type = "DigitalThreadPublisher"

\* Lines 68-80: the parameter names matched with the positional arguments,
\* then the keyword arguments.
param_values(func, args, kwargs) ==
    [ i \in { j \in 1..Len(args) : j <= Len(func.params) } |->
        [name |-> func.params[i], value |-> args[i]] ] \o kwargs

\* Line 85: isinstance(param_value, (int, str, float, bool)).
is_scalar_parameter(value) == value.type \in {"int", "str", "float", "bool"}

NoPublisherError == [type |-> "TypeError", message |-> "must have a DigitalThreadPublisher parameter"]

\* The events of one call, in order: the service calls and the body.
ConditionEvents(parameters, step_id) ==
    LET scalars == SelectSeq(parameters, LAMBDA q : is_scalar_parameter(q.value))
    IN  [ i \in 1..Len(scalars) |->
            [kind |-> "publish_condition", name |-> scalars[i].name,
             value |-> scalars[i].value.repr, step_id |-> step_id] ]

\* What a call that raised returns.
NotReturned == "<raised>"

\* Line 64: publisher.current_step_id after the assignment.
current_step_id_after_assignment(step_ids_by_test, name, current) ==
    step_ids_by_test[name]

\* publish_test_to_datastore's wrapper (lines 32-93): the result of the call,
\* what it did in order, and the publisher's fields afterwards.
wrapper(func, call, create_ok, publish_ok, step_ids_by_test, steps, current) ==
    LET unchanged(raised, events) ==
            [raised |-> raised, returned |-> NotReturned, events |-> events,
             step_ids_by_test |-> step_ids_by_test, steps |-> steps, current |-> current]
        cached == step_is_cached(func.name, step_ids_by_test)
        create == <<[kind |-> "create_step", name |-> func.name, value |-> "",
                     step_id |-> current]>>
    IN  IF ~find_publisher(call.args, call.kwargs)
        THEN unchanged(NoPublisherError, <<>>)
        ELSE IF ~cached /\ ~create_ok
        THEN unchanged(RpcError, create)
        ELSE
            LET step_id == Len(steps) + 1
                ids == IF cached THEN step_ids_by_test
                       ELSE [n \in DOMAIN step_ids_by_test \cup {func.name} |->
                                IF n = func.name THEN step_id ELSE step_ids_by_test[n]]
                made == IF cached THEN steps ELSE Append(steps, func.name)
                before == IF cached THEN <<>> ELSE create
                assigned == current_step_id_after_assignment(ids, func.name, current)
                conditions == ConditionEvents(param_values(func, call.args, call.kwargs),
                                              assigned)
            IN  IF conditions # <<>> /\ ~publish_ok
                THEN [raised |-> RpcError, returned |-> NotReturned,
                      events |-> before \o <<conditions[1]>>,
                      step_ids_by_test |-> ids, steps |-> made, current |-> assigned]
                ELSE [raised |-> NoError, returned |-> func.returns,
                      events |-> before \o conditions \o
                                 <<[kind |-> "body", name |-> func.name, value |-> "",
                                    step_id |-> assigned]>>,
                      step_ids_by_test |-> ids, steps |-> made, current |-> assigned]

NoTest ==
    [func |-> "None", call |-> [args |-> <<>>, kwargs |-> <<>>], raised |-> NoError,
     returned |-> NotReturned, events |-> <<>>, returns |-> "None"]

\* DigitalThreadPublisher.__init__ (lines 171-173).
TestingInit ==
    /\ _step_ids_by_test = [n \in {} |-> 0]
    /\ current_step_id = 0
    /\ createdSteps = <<>>
    /\ lastTest = NoTest

(* --------------------------- _auth: the token -------------------------- *)
MaxClock == 3
buffer_seconds == 60

\* Token strings: None, the empty string, a JWT with an exp claim, a JWT
\* without one, and a string that is no JWT.
NoToken == [form |-> "None", exp |-> 0]
EmptyString == [form |-> "", exp |-> 0]
Tokens ==
    { [form |-> "jwt", exp |-> buffer_seconds + d] : d \in 0..(MaxClock + 1) }
    \cup { [form |-> "no_exp", exp |-> 0], [form |-> "malformed", exp |-> 0] }

\* What the nigel CLI does: prints a token, prints nothing, or fails.
CliFailed == [form |-> "failed", exp |-> 0]
CliResults == Tokens \cup {EmptyString, CliFailed}

\* An expiry test with no safety buffer.
_is_token_expired_without_buffer(token, current_time) ==
    IF token.form # "jwt" THEN TRUE ELSE current_time >= token.exp

\* JwtTokenProvider._is_token_expired with the default buffer_seconds.
_is_token_expired(token, current_time) ==
    IF token.form = "malformed" THEN TRUE
    ELSE IF token.form = "no_exp" THEN TRUE
    ELSE LET expires_at == token.exp - buffer_seconds
         IN  current_time >= expires_at

\* The truth value of an Optional[str].
is_nonempty(token) == token.form \notin {"None", ""}

TokenError == [type |-> "RuntimeError", message |-> "Unable to obtain JWT token"]

\* JwtTokenProvider.get_token: the environment override, the cache, the CLI.
get_token(cached_token, current_time, env_token, nigel_found, cli_result) ==
    IF is_nonempty(env_token)
    THEN [raised |-> NoError, returned |-> env_token, cached_token |-> cached_token]
    ELSE IF is_nonempty(cached_token) /\ ~_is_token_expired(cached_token, current_time)
    THEN [raised |-> NoError, returned |-> cached_token, cached_token |-> cached_token]
    ELSE IF nigel_found /\ is_nonempty(cli_result) /\ cli_result # CliFailed
    THEN [raised |-> NoError, returned |-> cli_result, cached_token |-> cli_result]
    ELSE [raised |-> TokenError, returned |-> NoToken, cached_token |-> cached_token]

NoTokenCall ==
    [op |-> "None", cached_before |-> NoToken, now |-> 0, env_token |-> NoToken,
     nigel_found |-> FALSE, cli_result |-> CliFailed, raised |-> NoError,
     returned |-> NoToken]

\* JwtTokenProvider.__init__.
AuthInit ==
    /\ _cached_token = NoToken
    /\ clock = 0
    /\ lastToken = NoTokenCall

(* ------------------- utilities: the data store context ----------------- *)
MaxInitializes == 2

EnvironmentVariables ==
    { "NIDiscovery_ClusterId", "DataStoreSettings__SqliteDatabasePath",
      "DataStoreSettings__DataFilesDirectory", "DataStoreSettings__IngestDirectory",
      "DataStoreSettings__FailedIngestDirectory",
      "DataStoreSettings__TdmsFileCacheExpirationSeconds" }

\* os.environ.get(name): None for a variable that is not set.
NotSet == [set |-> FALSE, value |-> ""]
OriginalValues ==
    { NotSet, [set |-> TRUE, value |-> ""], [set |-> TRUE, value |-> "original"] }

\* _initialize_cluster_id and _initialize_data_store_paths.
ContextValue(environment_variable) ==
    [set |-> TRUE,
     value |->
        CASE environment_variable = "NIDiscovery_ClusterId" -> "sha256(base)[:32]"
          [] environment_variable = "DataStoreSettings__SqliteDatabasePath" -> "base/MetadataStore.db"
          [] environment_variable = "DataStoreSettings__DataFilesDirectory" -> "base/DataFiles"
          [] environment_variable = "DataStoreSettings__IngestDirectory" -> "base/Ingest"
          [] environment_variable = "DataStoreSettings__FailedIngestDirectory" -> "base/FailedIngest"
          [] environment_variable = "DataStoreSettings__TdmsFileCacheExpirationSeconds" -> "0"]

\* _save_original_environment: the dict after the loop.
_save_original_environment(original_environment, os_environ) ==
    [ v \in DOMAIN original_environment \cup EnvironmentVariables |->
        IF v \in EnvironmentVariables THEN os_environ[v] ELSE original_environment[v] ]

\* _initialize_environment: os.environ after the assignments.
_initialize_environment(os_environ) ==
    [ v \in DOMAIN os_environ |->
        IF v \in EnvironmentVariables THEN ContextValue(v) ELSE os_environ[v] ]

\* A restore that removes a variable whose saved value is empty.
restored_value_if_truthy(original_value) ==
    IF original_value.value = "" THEN NotSet ELSE original_value

\* One round of the loop of _restore_environment: the variable afterwards.
restored_value(original_value) ==
    IF ~original_value.set THEN NotSet ELSE original_value

\* _restore_environment: os.environ after the loop.
_restore_environment(original_environment, os_environ) ==
    [ v \in DOMAIN os_environ |->
        IF v \in DOMAIN original_environment
        THEN restored_value(original_environment[v])
        ELSE os_environ[v] ]

\* DataStoreContext.__init__ in a process with the environment os_environ.
ContextStart(os_environ) ==
    /\ environ = os_environ
    /\ _original_environment = [v \in {} |-> NotSet]
    /\ contextLog =
          [last |-> "None", previous |-> "None", initializes |-> 0,
           before_first |-> os_environ, at_entry |-> os_environ]

ContextInit == ContextStart([v \in EnvironmentVariables |-> NotSet])

ClientInit ==
    /\ _closed = FALSE
    /\ _moniker_clients_by_service_location \in InjectedCaches
    /\ monikerClients =
          IF DOMAIN _moniker_clients_by_service_location = {}
          THEN <<>>
          ELSE <<[service_location |-> "injected", injected |-> TRUE, closes |-> 0]>>
    /\ _moniker_clients_lock = 0
    /\ storeCloses = 0
    /\ heldAtClose = {}
    /\ pc = [t \in Threads |-> "idle"]
    /\ rd = [t \in Threads |-> NoLocals]
    /\ lastCall = NoCall

Init ==
    /\ ClientInit
    /\ RegistryInit
    /\ TestingInit
    /\ AuthInit
    /\ ContextInit

(* ---------------------------- closed check ----------------------------- *)
\* A closed check that lets every call through.
RaisesWhenClosedNever == FALSE

\* The check at the top of every public operation: a closed client raises.
RaisesWhenClosed == _closed

(* ---------------------------- read_data -------------------------------- *)
\* Client.read_data up to the call of _get_moniker_client, and the urlparse
\* at the top of _get_moniker_client. A closed client raises at once.
\* first_use and after_close are history only: whether the key was absent
\* from the cache, and the client closed, when the call began.
read_data(t, moniker_source, expected_type) ==
    /\ pc[t] = "idle"
    /\ IF RaisesWhenClosed
       THEN /\ lastCall' = ClosedCall("read_data")
            /\ UNCHANGED <<pc, rd>>
       ELSE IF moniker_source.source_type \notin MonikerSourceTypes
       THEN /\ lastCall' =
                  [NoCall EXCEPT !.op = "read_data",
                       !.expected_type = expected_type, !.afterClose = _closed,
                       !.raised = [type |-> "UnboundLocalError", message |-> "moniker"]]
            /\ UNCHANGED <<pc, rd>>
       ELSE LET parsed_service_location == urlparse_netloc(moniker_source.service_location)
            IN  /\ pc' = [pc EXCEPT ![t] = "lock"]
                /\ rd' = [rd EXCEPT ![t] =
                       [service_location |-> moniker_source.service_location,
                        expected_type |-> expected_type,
                        parsed_service_location |-> parsed_service_location,
                        moniker_client |-> 0,
                        after_close |-> _closed,
                        first_use |-> parsed_service_location
                                        \notin DOMAIN _moniker_clients_by_service_location]]
                /\ UNCHANGED lastCall
    /\ UNCHANGED <<_closed, _moniker_clients_by_service_location, _moniker_clients_lock,
                   monikerClients, storeCloses, heldAtClose>>
    /\ UNCHANGED otherVars

\* "with self._moniker_clients_lock:" entered without waiting for the lock.
AcquireLockNotExclusive(t) ==
    /\ pc[t] = "lock"
    /\ _moniker_clients_lock' = t
    /\ pc' = [pc EXCEPT ![t] = "member"]
    /\ UNCHANGED <<_closed, _moniker_clients_by_service_location, monikerClients,
                   storeCloses, heldAtClose, rd, lastCall>>
    /\ UNCHANGED otherVars

\* "with self._moniker_clients_lock:" blocks until the lock is free.
AcquireLock(t) ==
    /\ pc[t] = "lock"
    /\ _moniker_clients_lock = 0
    /\ _moniker_clients_lock' = t
    /\ pc' = [pc EXCEPT ![t] = "member"]
    /\ UNCHANGED <<_closed, _moniker_clients_by_service_location, monikerClients,
                   storeCloses, heldAtClose, rd, lastCall>>
    /\ UNCHANGED otherVars

\* "if parsed_service_location not in self._moniker_clients_by_service_location"
MembershipTest(t) ==
    /\ pc[t] = "member"
    /\ pc' = [pc EXCEPT ![t] =
                 IF rd[t].parsed_service_location
                        \notin DOMAIN _moniker_clients_by_service_location
                 THEN "insert" ELSE "lookup"]
    /\ UNCHANGED <<_closed, _moniker_clients_by_service_location, _moniker_clients_lock,
                   monikerClients, storeCloses, heldAtClose, rd, lastCall>>
    /\ UNCHANGED otherVars

\* The cache after cache[key] = client.
Store(cache, key, client) ==
    [k \in DOMAIN cache \cup {key} |-> IF k = key THEN client ELSE cache[k]]

\* The insertion, leaving the with block before the lookup.
InsertAndRelease(t) ==
    /\ pc[t] = "insert"
    /\ Len(monikerClients) < MaxMonikerClients
    /\ monikerClients' = Append(monikerClients,
           [service_location |-> rd[t].parsed_service_location, injected |-> FALSE,
            closes |-> 0])
    /\ _moniker_clients_by_service_location' =
           Store(_moniker_clients_by_service_location, rd[t].parsed_service_location,
                 Len(monikerClients) + 1)
    /\ _moniker_clients_lock' = 0
    /\ pc' = [pc EXCEPT ![t] = "lookup"]
    /\ UNCHANGED <<_closed, storeCloses, heldAtClose, rd, lastCall>>
    /\ UNCHANGED otherVars

\* "self._moniker_clients_by_service_location[parsed] = MonikerClient(
\*  service_location=parsed)": the constructor runs, then the store.
Insert(t) ==
    /\ pc[t] = "insert"
    /\ Len(monikerClients) < MaxMonikerClients
    /\ monikerClients' = Append(monikerClients,
           [service_location |-> rd[t].parsed_service_location, injected |-> FALSE,
            closes |-> 0])
    /\ _moniker_clients_by_service_location' =
           Store(_moniker_clients_by_service_location, rd[t].parsed_service_location,
                 Len(monikerClients) + 1)
    /\ pc' = [pc EXCEPT ![t] = "lookup"]
    /\ UNCHANGED <<_closed, _moniker_clients_lock, storeCloses, heldAtClose, rd, lastCall>>
    /\ UNCHANGED otherVars

\* "return self._moniker_clients_by_service_location[parsed]", which leaves
\* the with block and so releases the lock.
Lookup(t) ==
    /\ pc[t] = "lookup"
    /\ rd' = [rd EXCEPT ![t].moniker_client =
                 _moniker_clients_by_service_location[rd[t].parsed_service_location]]
    /\ _moniker_clients_lock' = 0
    /\ pc' = [pc EXCEPT ![t] = "remote"]
    /\ UNCHANGED <<_closed, _moniker_clients_by_service_location, monikerClients,
                   storeCloses, heldAtClose, lastCall>>
    /\ UNCHANGED otherVars

\* The rest of read_data: the remote read on the resolved connection, then
\* unpacking, conversion and the expected_type check. The call's locals end
\* with it.
read_from_moniker(t, read_value, transport_ok) ==
    /\ pc[t] = "remote"
    /\ LET result == read_from_moniker_and_convert(read_value, rd[t].expected_type,
                                                   transport_ok)
       IN  lastCall' =
               [NoCall EXCEPT !.op = "read_data",
                    !.raised = result.raised, !.returned = result.returned,
                    !.sentMoniker = result.sent, !.read_value = read_value,
                    !.afterClose = rd[t].after_close,
                    !.expected_type = rd[t].expected_type,
                    !.transport_ok = transport_ok]
    /\ pc' = [pc EXCEPT ![t] = "idle"]
    /\ rd' = [rd EXCEPT ![t] = NoLocals]
    /\ UNCHANGED <<_closed, _moniker_clients_by_service_location, _moniker_clients_lock,
                   monikerClients, storeCloses, heldAtClose>>
    /\ UNCHANGED otherVars

(* ---------------------- publish, query and close ----------------------- *)
\* Client.publish_measurement as one call: it touches no shared state.
PublishMeasurementCall(t, value, timestamp, now, transport_ok) ==
    /\ pc[t] = "idle"
    /\ IF RaisesWhenClosed
       THEN lastCall' = ClosedCall("publish_measurement")
       ELSE LET result == publish_measurement(value, timestamp, now, transport_ok)
            IN  lastCall' =
                    [NoCall EXCEPT !.op = "publish_measurement",
                         !.raised = result.raised, !.returned = result.returned,
                         !.sentStore = result.sent, !.request = result.request,
                         !.afterClose = _closed,
                         !.value = value, !.timestamp = timestamp, !.now = now,
                         !.transport_ok = transport_ok]
    /\ UNCHANGED <<_closed, _moniker_clients_by_service_location, _moniker_clients_lock,
                   monikerClients, storeCloses, heldAtClose, pc, rd>>
    /\ UNCHANGED otherVars

\* Client.publish_condition as one call.
PublishConditionCall(t, value, transport_ok) ==
    /\ pc[t] = "idle"
    /\ IF RaisesWhenClosed
       THEN lastCall' = ClosedCall("publish_condition")
       ELSE LET result == publish_condition(value, transport_ok)
            IN  lastCall' =
                    [NoCall EXCEPT !.op = "publish_condition",
                         !.raised = result.raised, !.returned = result.returned,
                         !.sentStore = result.sent, !.request = result.request,
                         !.afterClose = _closed, !.value = value,
                         !.transport_ok = transport_ok]
    /\ UNCHANGED <<_closed, _moniker_clients_by_service_location, _moniker_clients_lock,
                   monikerClients, storeCloses, heldAtClose, pc, rd>>
    /\ UNCHANGED otherVars

\* Client.publish_condition_batch and Client.publish_measurement_batch.
PublishConditionBatchCall(t, values, transport_ok) ==
    /\ pc[t] = "idle"
    /\ IF RaisesWhenClosed
       THEN lastCall' = ClosedCall("publish_condition_batch")
       ELSE LET result == publish_condition_batch(values, transport_ok)
            IN  lastCall' =
                    [NoCall EXCEPT !.op = "publish_condition_batch",
                         !.raised = result.raised, !.returned = result.returned,
                         !.sentStore = result.sent, !.request = result.request,
                         !.afterClose = _closed, !.value = values,
                         !.transport_ok = transport_ok]
    /\ UNCHANGED <<_closed, _moniker_clients_by_service_location, _moniker_clients_lock,
                   monikerClients, storeCloses, heldAtClose, pc, rd>>
    /\ UNCHANGED otherVars

PublishMeasurementBatchCall(t, values, transport_ok) ==
    /\ pc[t] = "idle"
    /\ IF RaisesWhenClosed
       THEN lastCall' = ClosedCall("publish_measurement_batch")
       ELSE LET result == publish_measurement_batch(values, transport_ok)
            IN  lastCall' =
                    [NoCall EXCEPT !.op = "publish_measurement_batch",
                         !.raised = result.raised, !.returned = result.returned,
                         !.sentStore = result.sent, !.request = result.request,
                         !.afterClose = _closed, !.value = values,
                         !.transport_ok = transport_ok]
    /\ UNCHANGED <<_closed, _moniker_clients_by_service_location, _moniker_clients_lock,
                   monikerClients, storeCloses, heldAtClose, pc, rd>>
    /\ UNCHANGED otherVars

\* Client.query_measurements: build the request, one call of the service.
QueryMeasurements(t) ==
    /\ pc[t] = "idle"
    /\ IF RaisesWhenClosed
       THEN lastCall' = ClosedCall("query_measurements")
       ELSE \E transport_ok \in {TRUE} :
               lastCall' =
                   [NoCall EXCEPT !.op = "query_measurements",
                        !.raised = IF transport_ok THEN NoError ELSE RpcError,
                        !.returned = IF transport_ok
                                     THEN [type |-> "PublishedMeasurements", dtype |-> ""]
                                     ELSE NoValue,
                        !.sentStore = 1, !.afterClose = _closed]
    /\ UNCHANGED <<_closed, _moniker_clients_by_service_location, _moniker_clients_lock,
                   monikerClients, storeCloses, heldAtClose, pc, rd>>
    /\ UNCHANGED otherVars

\* The connections a cache holds.
CachedClients(cache) == { cache[k] : k \in DOMAIN cache }

\* close() that releases the connections again on every call.
CloseAgain(t) ==
    /\ pc[t] = "idle"
    /\ _moniker_clients_lock = 0
    /\ monikerClients' =
           [i \in DOMAIN monikerClients |->
               IF i \in CachedClients(_moniker_clients_by_service_location)
               THEN [monikerClients[i] EXCEPT !.closes = @ + 1]
               ELSE monikerClients[i]]
    /\ storeCloses' = storeCloses + 1
    /\ heldAtClose' = IF _closed THEN heldAtClose
                      ELSE CachedClients(_moniker_clients_by_service_location)
    /\ _closed' = TRUE
    /\ lastCall' = [NoCall EXCEPT !.op = "close", !.afterClose = _closed]
    /\ storeCloses < 2
    /\ UNCHANGED <<_moniker_clients_by_service_location, _moniker_clients_lock, pc, rd>>
    /\ UNCHANGED otherVars

\* close() that raises on a client that is closed already.
CloseRaisesWhenClosed(t) ==
    /\ pc[t] = "idle"
    /\ _moniker_clients_lock = 0
    /\ IF _closed
       THEN /\ lastCall' = ClosedCall("close")
            /\ UNCHANGED <<_closed, monikerClients, storeCloses, heldAtClose>>
       ELSE /\ monikerClients' =
                  [i \in DOMAIN monikerClients |->
                      IF i \in CachedClients(_moniker_clients_by_service_location)
                      THEN [monikerClients[i] EXCEPT !.closes = @ + 1]
                      ELSE monikerClients[i]]
            /\ storeCloses' = storeCloses + 1
            /\ heldAtClose' = CachedClients(_moniker_clients_by_service_location)
            /\ _closed' = TRUE
            /\ lastCall' = [NoCall EXCEPT !.op = "close"]
    /\ UNCHANGED <<_moniker_clients_by_service_location, _moniker_clients_lock, pc, rd>>
    /\ UNCHANGED otherVars

\* close() and the exit of the with-block: under the cache's lock, close every
\* cached connection and the store service client, then mark the client
\* closed. On a closed client it does nothing and does not raise.
Close(t) ==
    /\ pc[t] = "idle"
    /\ _moniker_clients_lock = 0
    /\ IF _closed
       THEN UNCHANGED <<_closed, monikerClients, storeCloses, heldAtClose>>
       ELSE /\ monikerClients' =
                  [i \in DOMAIN monikerClients |->
                      IF i \in CachedClients(_moniker_clients_by_service_location)
                      THEN [monikerClients[i] EXCEPT !.closes = @ + 1]
                      ELSE monikerClients[i]]
            /\ storeCloses' = storeCloses + 1
            /\ heldAtClose' = CachedClients(_moniker_clients_by_service_location)
            /\ _closed' = TRUE
    /\ lastCall' = [NoCall EXCEPT !.op = "close", !.afterClose = _closed]
    /\ UNCHANGED <<_moniker_clients_by_service_location, _moniker_clients_lock, pc, rd>>
    /\ UNCHANGED otherVars

(* --------------------------- specifications ---------------------------- *)
\* The inputs of the concurrent specification: every form of service
\* location, a few envelopes and values.
SampleEnvelopes ==
    { [prefix |-> data_type_prefix, full_name |-> n, corrupt |-> FALSE] :
        n \in {"DoubleAnalogWaveform"} }

SampleValues ==
    { [type |-> "AnalogWaveform", dtype |-> "float64", t0 |-> 1] }

ReadData(t) ==
    \E moniker_source \in MonikerSources(ServiceLocations, {"Moniker"}),
       expected_type \in {NoType} :
        read_data(t, moniker_source, expected_type)

ReadFromMoniker(t) ==
    \E read_value \in SampleEnvelopes, transport_ok \in {TRUE} :
        read_from_moniker(t, read_value, transport_ok)

PublishMeasurement(t) ==
    \E value \in SampleValues, timestamp \in {NoTimestamp} :
        PublishMeasurementCall(t, value, timestamp, 1, TRUE)

Next ==
    \E t \in Threads :
        \/ ReadData(t)
        \/ AcquireLock(t)
        \/ MembershipTest(t)
        \/ Insert(t)
        \/ Lookup(t)
        \/ ReadFromMoniker(t)
        \/ PublishMeasurement(t)
        \/ QueryMeasurements(t)
        \/ Close(t)

Spec == Init /\ [][Next]_vars

\* The sequential specification: one calling thread, a client constructed
\* with no cache handed in, one service location, and every value,
\* timestamp, envelope and expected type.
SampleLocations ==
    { l \in ServiceLocations : l.authority = "h1:1" /\ l.scheme = "http" }

AnyReadData(t) ==
    \E moniker_source \in MonikerSources(SampleLocations, MonikerSourceTypes \cup {"str"}),
       expected_type \in ExpectedTypes :
        read_data(t, moniker_source, expected_type)

AnyReadFromMoniker(t) ==
    \E read_value \in ReadEnvelopes, transport_ok \in BOOLEAN :
        read_from_moniker(t, read_value, transport_ok)

AnyPublishMeasurement(t) ==
    \E value \in PublishValues, timestamp \in {NoTimestamp} \cup Times,
       now \in Times \ {0}, transport_ok \in BOOLEAN :
        PublishMeasurementCall(t, value, timestamp, now, transport_ok)

AnyPublishConditionBatch(t) ==
    \E values \in BatchValues, transport_ok \in BOOLEAN :
        PublishConditionBatchCall(t, values, transport_ok)

AnyPublishMeasurementBatch(t) ==
    \E values \in BatchValues, transport_ok \in BOOLEAN :
        PublishMeasurementBatchCall(t, values, transport_ok)

NextCalls ==
    \E t \in {1} :
        \/ AnyReadData(t)
        \/ AnyPublishConditionBatch(t)
        \/ AnyPublishMeasurementBatch(t)
        \/ AcquireLock(t)
        \/ MembershipTest(t)
        \/ Insert(t)
        \/ Lookup(t)
        \/ AnyReadFromMoniker(t)
        \/ AnyPublishMeasurement(t)

InitCalls == Init /\ _moniker_clients_by_service_location = EmptyCache

SpecCalls == InitCalls /\ [][NextCalls]_vars

\* The conversion module called directly, as its unit tests call it: every
\* value and every envelope, and each read converter on every envelope.
PopulatePublishMeasurementRequestValueCall ==
    \E value \in ConverterValues :
        LET result == populate_publish_measurement_request_value(EmptyRequest, value)
        IN  /\ lastCall' =
                   [NoCall EXCEPT !.op = "populate_publish_measurement_request_value",
                        !.value = value, !.raised = result.raised,
                        !.request = result.request, !.converter = result.converter]
            /\ UNCHANGED <<_closed, _moniker_clients_by_service_location,
                           _moniker_clients_lock, monikerClients, storeCloses,
                           heldAtClose, pc, rd, otherVars>>

ConvertFromProtobufCall ==
    \E protobuf_any \in ReadEnvelopes \cup {NoEnvelope} :
        LET result == convert_from_protobuf(protobuf_any)
        IN  /\ lastCall' =
                   [NoCall EXCEPT !.op = "convert_from_protobuf",
                        !.read_value = protobuf_any, !.raised = result.raised,
                        !.returned = result.returned, !.converter = result.converter]
            /\ UNCHANGED <<_closed, _moniker_clients_by_service_location,
                           _moniker_clients_lock, monikerClients, storeCloses,
                           heldAtClose, pc, rd, otherVars>>

ToPythonCall ==
    \E i \in 1..Len(_READ_CONVERTERS), protobuf_value \in ReadEnvelopes :
        LET result == to_python(_READ_CONVERTERS[i], protobuf_value)
        IN  /\ lastCall' =
                   [NoCall EXCEPT !.op = "to_python",
                        !.read_value = protobuf_value, !.raised = result.raised,
                        !.returned = result.returned, !.converter = _READ_CONVERTERS[i]]
            /\ UNCHANGED <<_closed, _moniker_clients_by_service_location,
                           _moniker_clients_lock, monikerClients, storeCloses,
                           heldAtClose, pc, rd, otherVars>>

\* Client._populate_publish_measurement_request_value, a static method.
ClientPopulatePublishMeasurementRequestValueCall ==
    \E value \in PublishValues :
        LET result == _populate_publish_measurement_request_value(EmptyRequest, value)
        IN  /\ lastCall' =
                   [NoCall EXCEPT !.op = "_populate_publish_measurement_request_value",
                        !.value = value, !.raised = result.raised,
                        !.request = result.request]
            /\ UNCHANGED <<_closed, _moniker_clients_by_service_location,
                           _moniker_clients_lock, monikerClients, storeCloses,
                           heldAtClose, pc, rd, otherVars>>

PopulatePublishConditionRequestValueCall ==
    \E value \in ConverterValues :
        LET result == populate_publish_condition_request_value(EmptyConditionRequest, value)
        IN  /\ lastCall' =
                   [NoCall EXCEPT !.op = "populate_publish_condition_request_value",
                        !.value = value, !.raised = result.raised,
                        !.request = result.request, !.converter = result.converter]
            /\ UNCHANGED <<_closed, _moniker_clients_by_service_location,
                           _moniker_clients_lock, monikerClients, storeCloses,
                           heldAtClose, pc, rd, otherVars>>

AnyPublishCondition ==
    \E value \in PublishValues, transport_ok \in BOOLEAN :
        PublishConditionCall(1, value, transport_ok)

\* The message type of each member of the request's "value" oneof.
WireMessageOf(value_case) ==
    CASE value_case \in {"scalar", "scalar.bool_value", "scalar.sint32_value",
                         "scalar.double_value", "scalar.string_value"} -> "Scalar"
      [] value_case = "vector" -> "Vector"
      [] value_case = "double_analog_waveform" -> "DoubleAnalogWaveform"
      [] value_case = "i16_analog_waveform" -> "I16AnalogWaveform"
      [] value_case = "double_complex_waveform" -> "DoubleComplexWaveform"
      [] value_case = "i16_complex_waveform" -> "I16ComplexWaveform"
      [] value_case = "double_spectrum" -> "DoubleSpectrum"
      [] value_case = "digital_waveform" -> "DigitalWaveform"

\* Any.Pack of a message: its type URL, and bytes that parse as the message.
Pack(message_type) ==
    [prefix |-> data_type_prefix, full_name |-> message_type, corrupt |-> FALSE]

\* The publish converter of a value followed by the read converter of the
\* message it put into the request, packed into an Any.
RoundTripCall ==
    \E value \in ConverterValues :
        LET populated == populate_publish_measurement_request_value(EmptyRequest, value)
            packed == Pack(WireMessageOf(populated.request.value_case))
            result == convert_from_protobuf(packed)
        IN  /\ lastCall' =
                   IF populated.raised # NoError
                   THEN [NoCall EXCEPT !.op = "round_trip", !.value = value,
                             !.raised = populated.raised]
                   ELSE [NoCall EXCEPT !.op = "round_trip", !.value = value,
                             !.request = populated.request, !.read_value = packed,
                             !.raised = result.raised, !.returned = result.returned,
                             !.converter = result.converter]
            /\ UNCHANGED <<_closed, _moniker_clients_by_service_location,
                           _moniker_clients_lock, monikerClients, storeCloses,
                           heldAtClose, pc, rd, otherVars>>

NextConvert ==
    \/ RoundTripCall
    \/ PopulatePublishConditionRequestValueCall
    \/ AnyPublishCondition
    \/ PopulatePublishMeasurementRequestValueCall
    \/ ClientPopulatePublishMeasurementRequestValueCall
    \/ ConvertFromProtobufCall
    \/ ToPythonCall

SpecConvert == InitCalls /\ [][NextConvert]_vars

(* ------------------ conversion called from several threads ------------- *)
\* convert_from_protobuf up to the dict lookup (conversion.py 77-82): the
\* isinstance test, TypeName() and the indexing of the registry.
ConvertLookup(t, protobuf_any) ==
    /\ lookups[t].pc = "idle"
    /\ IF protobuf_any = NoEnvelope
       THEN /\ lastCall' =
                   [NoCall EXCEPT !.op = "convert_from_protobuf",
                        !.read_value = protobuf_any,
                        !.raised = [type |-> "ValueError", message |-> "Unexpected type"]]
            /\ UNCHANGED registryVars
       ELSE LET found == dict_getitem(readConverterRegistry, TypeName(protobuf_any))
            IN  /\ readConverterRegistry' = found.dict
                /\ IF found.raised # NoError
                   THEN /\ lastCall' =
                               [NoCall EXCEPT !.op = "convert_from_protobuf",
                                    !.read_value = protobuf_any, !.raised = found.raised]
                        /\ UNCHANGED lookups
                   ELSE /\ lookups' =
                               [lookups EXCEPT ![t] =
                                   [pc |-> "convert", protobuf_any |-> protobuf_any,
                                    converter |-> found.value]]
                        /\ UNCHANGED lastCall
    /\ UNCHANGED <<clientVars, testingVars, authVars, contextVars>>

\* convert_from_protobuf from the lookup on (conversion.py 83): to_python of
\* the converter the lookup returned.
ConvertToPython(t) ==
    /\ lookups[t].pc = "convert"
    /\ LET result == to_python(lookups[t].converter, lookups[t].protobuf_any)
       IN  lastCall' =
               [NoCall EXCEPT !.op = "convert_from_protobuf",
                    !.read_value = lookups[t].protobuf_any, !.raised = result.raised,
                    !.returned = result.returned, !.converter = lookups[t].converter]
    /\ lookups' = [lookups EXCEPT ![t] = NoLookup]
    /\ UNCHANGED <<clientVars, readConverterRegistry, testingVars, authVars, contextVars>>

\* The envelopes the threads convert: registered and unregistered message
\* types, with bytes that parse and bytes that do not.
RegistryEnvelopes ==
    { e \in ReadEnvelopes :
        /\ e.prefix = data_type_prefix
        /\ e.full_name \in {"Vector", "DoubleAnalogWaveform", "DoubleXYData"} }

PublishWhileConverting ==
    \E value \in { v \in ConverterValues : v.type \in {"Vector", "Spectrum"} } :
        LET result == populate_publish_measurement_request_value(EmptyRequest, value)
        IN  /\ lastCall' =
                   [NoCall EXCEPT !.op = "populate_publish_measurement_request_value",
                        !.value = value,
                        !.raised = result.raised,
                        !.request = result.request, !.converter = result.converter]
            /\ UNCHANGED <<clientVars, otherVars>>

NextRegistry ==
    \/ \E t \in Threads : \E protobuf_any \in RegistryEnvelopes \cup {NoEnvelope} :
            ConvertLookup(t, protobuf_any)
    \/ \E t \in Threads : ConvertToPython(t)
    \/ PublishWhileConverting

SpecRegistry == InitCalls /\ [][NextRegistry]_vars

(* ----------------------- decorated tests, one publisher ---------------- *)
\* One call of a decorated test function, as pytest makes it.
DecoratedCall ==
    \E func \in TestFunctions, call \in TestCalls, create_ok \in BOOLEAN,
       publish_ok \in BOOLEAN :
        LET result == wrapper(func, call, create_ok, publish_ok, _step_ids_by_test,
                              createdSteps, current_step_id)
        IN  /\ Len(createdSteps) < MaxCreatedSteps
            /\ _step_ids_by_test' = result.step_ids_by_test
            /\ createdSteps' = result.steps
            /\ current_step_id' = result.current
            /\ lastTest' =
                   [func |-> func.name, call |-> call, raised |-> result.raised,
                    returned |-> result.returned, events |-> result.events,
                    returns |-> func.returns]
            /\ UNCHANGED <<clientVars, lastCall, registryVars, authVars, contextVars>>

\* The publisher's close at the end of the session: the fields stay.
PublisherClose ==
    /\ lastTest.func # "None"
    /\ lastTest' = NoTest
    /\ UNCHANGED <<_step_ids_by_test, current_step_id, createdSteps>>
    /\ UNCHANGED <<clientVars, lastCall, registryVars, authVars, contextVars>>

NextTesting ==
    \/ DecoratedCall
    \/ PublisherClose

SpecTesting == InitCalls /\ [][NextTesting]_vars

(* ------------------------------ the token ------------------------------ *)
GetToken ==
    \E env_token \in {NoToken, EmptyString} \cup Tokens, nigel_found \in BOOLEAN,
       cli_result \in CliResults :
        LET result == get_token(_cached_token, clock, env_token, nigel_found, cli_result)
        IN  /\ _cached_token' = result.cached_token
            /\ lastToken' =
                   [op |-> "get_token", cached_before |-> _cached_token, now |-> clock,
                    env_token |-> env_token, nigel_found |-> nigel_found,
                    cli_result |-> cli_result, raised |-> result.raised,
                    returned |-> result.returned]
            /\ UNCHANGED clock
            /\ UNCHANGED <<clientVars, lastCall, registryVars, testingVars, contextVars>>

\* Time passes between calls.
Tick ==
    /\ clock < MaxClock
    /\ clock' = clock + 1
    /\ UNCHANGED <<_cached_token, lastToken>>
    /\ UNCHANGED <<clientVars, lastCall, registryVars, testingVars, contextVars>>

NextAuth ==
    \/ GetToken
    \/ Tick

SpecAuth == InitCalls /\ [][NextAuth]_vars

(* ------------------------ the data store context ----------------------- *)
\* DataStoreContext.initialize (also __enter__).
Initialize ==
    /\ contextLog.initializes < MaxInitializes
    /\ _original_environment' = _save_original_environment(_original_environment, environ)
    /\ environ' = _initialize_environment(environ)
    /\ contextLog' =
          [contextLog EXCEPT !.last = "initialize", !.previous = contextLog.last,
               !.initializes = @ + 1, !.at_entry = environ,
               !.before_first = IF contextLog.initializes = 0 THEN environ ELSE @]
    /\ UNCHANGED <<clientVars, lastCall, registryVars, testingVars, authVars>>

\* DataStoreContext.close (also __exit__).
CloseContext ==
    /\ environ' = _restore_environment(_original_environment, environ)
    /\ contextLog' = [contextLog EXCEPT !.last = "close", !.previous = contextLog.last]
    /\ UNCHANGED _original_environment
    /\ UNCHANGED <<clientVars, lastCall, registryVars, testingVars, authVars>>

NextContext ==
    \/ Initialize
    \/ CloseContext

InitContext ==
    /\ ClientInit
    /\ _moniker_clients_by_service_location = EmptyCache
    /\ RegistryInit
    /\ TestingInit
    /\ AuthInit
    /\ \E os_environ \in [EnvironmentVariables -> OriginalValues] : ContextStart(os_environ)

SpecContext == InitContext /\ [][NextContext]_vars

(* ------------------------ moniker-connection cache --------------------- *)
\* The threads that hold the connection _get_moniker_client returned.
Resolved == { t \in Threads : pc[t] = "remote" }

\* The connections this client constructed for a key.
ConstructedFor(key) ==
    { i \in DOMAIN monikerClients :
        ~monikerClients[i].injected /\ monikerClients[i].service_location = key }

\* C1: when two or more threads resolve, for the first time and concurrently,
\* a location that was not in the cache, exactly one MonikerClient is
\* constructed for it and all of them receive that same object.
C1_OneConnectionUnderConcurrentFirstUse ==
    \A t1, t2 \in Resolved :
        ( /\ rd[t1].first_use
          /\ rd[t2].first_use
          /\ rd[t1].parsed_service_location = rd[t2].parsed_service_location )
        => /\ rd[t1].moniker_client = rd[t2].moniker_client
           /\ ConstructedFor(rd[t1].parsed_service_location) = {rd[t1].moniker_client}

C1_Witness ==
    \E t1, t2 \in Resolved :
        /\ t1 # t2
        /\ rd[t1].first_use
        /\ rd[t2].first_use
        /\ rd[t1].parsed_service_location = rd[t2].parsed_service_location
        /\ rd[t1].moniker_client = rd[t2].moniker_client

\* C2: a client has at most one connection per service location: every
\* connection object is the one the cache holds for its key, a read gets the
\* cached object of its location, and locations in URL form that name the same
\* host:port share one connection, constructed for that host:port.
C2_OneCachedConnectionPerLocation ==
    /\ \A i \in DOMAIN monikerClients :
          Cardinality({ k \in DOMAIN _moniker_clients_by_service_location :
                           _moniker_clients_by_service_location[k] = i }) = 1
    /\ \A t1, t2 \in Resolved :
          rd[t1].service_location = rd[t2].service_location
          => rd[t1].moniker_client = rd[t2].moniker_client
    /\ \A t1, t2 \in Resolved :
          ( /\ rd[t1].service_location.slashes
            /\ rd[t2].service_location.slashes
            /\ rd[t1].service_location.authority = rd[t2].service_location.authority )
          => /\ rd[t1].moniker_client = rd[t2].moniker_client
             /\ \/ monikerClients[rd[t1].moniker_client].injected
                \/ monikerClients[rd[t1].moniker_client].service_location
                      = rd[t1].service_location.authority

C2_Witness ==
    \E t1, t2 \in Resolved :
        /\ rd[t1].service_location # rd[t2].service_location
        /\ rd[t1].service_location.slashes
        /\ rd[t2].service_location.slashes
        /\ rd[t1].service_location.authority = rd[t2].service_location.authority
        /\ rd[t1].moniker_client = rd[t2].moniker_client
        /\ ~monikerClients[rd[t1].moniker_client].injected

\* C3: the membership test, the insertion and the lookup of the cache run
\* only in the thread that holds the lock, and the connection a caller
\* obtains is a constructed one that the cache holds for the caller's key.
C3_CacheAccessUnderLock ==
    /\ \A t \in Threads :
          pc[t] \in {"member", "insert", "lookup"} => _moniker_clients_lock = t
    /\ \A t \in Resolved :
          /\ rd[t].moniker_client \in DOMAIN monikerClients
          /\ rd[t].parsed_service_location \in DOMAIN _moniker_clients_by_service_location
          /\ _moniker_clients_by_service_location[rd[t].parsed_service_location]
                = rd[t].moniker_client

C3_Witness ==
    \E t1, t2 \in Threads :
        /\ pc[t1] = "lookup"
        /\ _moniker_clients_lock = t1
        /\ pc[t2] = "lock"
        /\ rd[t1].parsed_service_location # rd[t2].parsed_service_location
        /\ rd[t2].first_use

(* ------------------------------ life cycle ----------------------------- *)
\* C4: once close has run the client stays closed, and every public
\* operation called from then on raises the client-closed error without
\* sending a request to the store service or to a moniker connection.
C4_ClosedClientRejectsCalls ==
    /\ storeCloses > 0 => _closed
    /\ \A t \in Threads : pc[t] # "idle" => ~rd[t].after_close
    /\ (lastCall.afterClose /\ lastCall.op # "close")
       => /\ lastCall.raised = ClosedClientError
          /\ lastCall.returned = NoValue
          /\ lastCall.sentStore = 0
          /\ lastCall.sentMoniker = 0

C4_Witness ==
    /\ _closed
    /\ lastCall.op = "read_data"
    /\ lastCall.afterClose
    /\ lastCall.raised = ClosedClientError
    /\ DOMAIN monikerClients # {}

\* C5: closing the client calls close exactly once on the store service
\* client and exactly once on every moniker connection the cache held, however
\* often close is called.
C5_CloseReleasesEachConnectionOnce ==
    /\ storeCloses <= 1
    /\ \A i \in DOMAIN monikerClients : monikerClients[i].closes <= 1
    /\ _closed => /\ storeCloses = 1
                  /\ \A i \in heldAtClose : monikerClients[i].closes = 1

C5_Witness ==
    /\ _closed
    /\ lastCall.op = "close"
    /\ lastCall.afterClose
    /\ storeCloses = 1
    /\ \E i \in heldAtClose : ~monikerClients[i].injected /\ monikerClients[i].closes = 1

\* C6: close called on a closed client does not raise and leaves it closed.
C6_CloseIsIdempotent ==
    lastCall.op = "close" => (lastCall.raised = NoError /\ _closed)

C6_Witness ==
    /\ lastCall.op = "close"
    /\ lastCall.afterClose
    /\ lastCall.raised = NoError
    /\ _closed

(* ----------------------- publish timestamp, atomicity ------------------ *)
\* The waveform kinds publish_measurement accepts, each of which carries a t0.
PublishableWaveform(value) ==
    \/ value.type = "AnalogWaveform" /\ value.dtype \in {"float64", "int16"}
    \/ value.type = "ComplexWaveform" /\ value.dtype \in {"complex128", "ComplexInt32Base"}
    \/ value.type = "DigitalWaveform"

\* The other kinds publish_measurement accepts.
PublishableNonWaveform(value) ==
    \/ value.type \in {"bool", "int", "float", "str", "Scalar", "Vector"}
    \/ value.type = "Spectrum" /\ value.dtype = "float64"

\* The waveform has a start time, and it is not the all-zero timestamp.
NonDefaultT0(value) ==
    /\ value.t0 # NoTimestamp
    /\ value.t0 \div TicksPerSecond # 0 \/ value.t0 % TicksPerSecond # 0

PublishCompleted == lastCall.op = "publish_measurement" /\ ~lastCall.afterClose

\* C7: publishing a waveform with a non-default t0 and an explicit timestamp
\* that differs from it raises the timestamp-mismatch ValueError, and no
\* request (with either of the two as its timestamp) is sent.
C7_MismatchedTimestampRaises ==
    ( /\ PublishCompleted
      /\ PublishableWaveform(lastCall.value)
      /\ NonDefaultT0(lastCall.value)
      /\ lastCall.timestamp # NoTimestamp
      /\ lastCall.timestamp # lastCall.value.t0 )
    => /\ lastCall.raised = TimestampMismatch
       /\ lastCall.returned = NoValue
       /\ lastCall.sentStore = 0

C7_Witness ==
    /\ PublishCompleted
    /\ lastCall.value.type = "AnalogWaveform"
    /\ lastCall.value.dtype = "float64"
    /\ lastCall.value.t0 = 1
    /\ lastCall.timestamp = 2
    /\ lastCall.raised = TimestampMismatch

\* C8: publishing a waveform of any kind that carries a t0, with a non-default
\* t0 and no explicit timestamp, sends a request whose timestamp is t0.
C8_WaveformT0IsPublishTimestamp ==
    ( /\ PublishCompleted
      /\ PublishableWaveform(lastCall.value)
      /\ NonDefaultT0(lastCall.value)
      /\ lastCall.timestamp = NoTimestamp )
    => /\ lastCall.sentStore = 1
       /\ lastCall.request.timestamp =
             [seconds |-> lastCall.value.t0 \div TicksPerSecond,
              fractional_seconds |-> lastCall.value.t0 % TicksPerSecond]

C8_Witness ==
    /\ PublishCompleted
    /\ lastCall.value.type = "DigitalWaveform"
    /\ NonDefaultT0(lastCall.value)
    /\ lastCall.timestamp = NoTimestamp
    /\ lastCall.now # lastCall.value.t0
    /\ lastCall.sentStore = 1
    /\ lastCall.raised = NoError
    /\ lastCall.request.timestamp = lastCall.request.t0

\* C9: for a value that is no waveform, or a waveform whose t0 is unset or
\* default, the request's timestamp is the explicit timestamp when one is
\* given and the current time when none is.
C9_TimestampWithoutT0 ==
    ( /\ PublishCompleted
      /\ \/ PublishableNonWaveform(lastCall.value)
         \/ PublishableWaveform(lastCall.value) /\ ~NonDefaultT0(lastCall.value) )
    => LET used == IF lastCall.timestamp = NoTimestamp THEN lastCall.now
                   ELSE lastCall.timestamp
       IN  /\ lastCall.sentStore = 1
           /\ lastCall.raised \in {NoError, RpcError}
           /\ lastCall.request.timestamp =
                 [seconds |-> used \div TicksPerSecond,
                  fractional_seconds |-> used % TicksPerSecond]

C9_Witness ==
    /\ PublishCompleted
    /\ lastCall.value.type = "ComplexWaveform"
    /\ lastCall.value.dtype = "complex128"
    /\ lastCall.value.t0 = NoTimestamp
    /\ lastCall.timestamp = NoTimestamp
    /\ lastCall.now = 2
    /\ lastCall.raised = NoError
    /\ lastCall.request.timestamp # PrecisionTimestamp

\* C10: a publish that raises for its value type, dtype or timestamp has sent
\* no request; a read that raises returns no value.
C10_CallIsAllOrNothing ==
    /\ ( /\ PublishCompleted
         /\ lastCall.raised.type \in {"TypeError", "ValueError"} )
       => /\ lastCall.sentStore = 0
          /\ lastCall.returned = NoValue
    /\ (lastCall.op = "read_data" /\ lastCall.raised # NoError)
       => lastCall.returned = NoValue
    /\ lastCall.raised = NoError
       => lastCall.returned # NoValue \/ lastCall.op \in {"None", "close"}

C10_Witness ==
    /\ PublishCompleted
    /\ lastCall.value.type = "AnalogWaveform"
    /\ lastCall.value.dtype = "int32"
    /\ lastCall.raised.type = "TypeError"
    /\ lastCall.sentStore = 0

(* --------------------------- converter dispatch ------------------------ *)
\* The Python class whose values a member of the request's "value" oneof holds.
ValueCaseClass(value_case) ==
    CASE value_case = "scalar.bool_value" -> "bool"
      [] value_case = "scalar.sint32_value" -> "int"
      [] value_case = "scalar.double_value" -> "float"
      [] value_case = "scalar.string_value" -> "str"
      [] value_case = "scalar" -> "Scalar"
      [] value_case = "vector" -> "Vector"
      [] value_case \in {"double_analog_waveform", "i16_analog_waveform"} -> "AnalogWaveform"
      [] value_case \in {"double_complex_waveform", "i16_complex_waveform"} -> "ComplexWaveform"
      [] value_case = "double_spectrum" -> "Spectrum"
      [] value_case = "digital_waveform" -> "DigitalWaveform"
      [] OTHER -> "None"

\* The registered publish converters written for exactly the value's class.
MatchingPublishConverters(value) ==
    { i \in 1..Len(_PUBLISH_CONVERTERS) :
        /\ python_type(_PUBLISH_CONVERTERS[i]).name = value.type
        /\ python_type(_PUBLISH_CONVERTERS[i]).module = value.module }

UnsupportedValueTypeMessages ==
    {"Invalid publish converter type string", "Unsupported measurement value type"}

RegisteredWireTypes ==
    { protobuf_typename(_READ_CONVERTERS[i]) : i \in 1..Len(_READ_CONVERTERS) }

UnsupportedWireTypeMessages == {"Unsupported data type", "Unsupported data type URL"}

\* C12: converting an envelope whose type name has no registered read
\* converter raises the unsupported-data-type TypeError; no converter runs
\* and no value is returned.
C12_UnregisteredWireTypeRaisesTyped ==
    ( /\ lastCall.op = "convert_from_protobuf"
      /\ lastCall.read_value # NoEnvelope
      /\ TypeName(lastCall.read_value) \notin RegisteredWireTypes )
    => /\ lastCall.raised.type = "TypeError"
       /\ lastCall.raised.message \in UnsupportedWireTypeMessages
       /\ lastCall.converter = NoConverter
       /\ lastCall.returned = NoValue

\* The errors a read raises when the envelope's type has no converter.
DispatchMissErrorTypes == {"KeyError", "TypeError"}

\* The envelope handed to the converter does not unpack as its message type:
\* its bytes do not parse, or it holds a message of another type.
FailsToUnpack ==
    \/ /\ lastCall.op = "convert_from_protobuf"
       /\ TypeName(lastCall.read_value) \in RegisteredWireTypes
       /\ lastCall.read_value.corrupt
    \/ /\ lastCall.op = "to_python"
       /\ \/ lastCall.read_value.corrupt
          \/ TypeName(lastCall.read_value) # protobuf_typename(lastCall.converter)

\* C13: when the envelope's type name is registered but the envelope does not
\* unpack as the converter's message type, the read raises an unpack error,
\* which is of another kind than the error for a type without converter, and
\* returns nothing.
C13_UnpackFailureIsDistinctError ==
    FailsToUnpack
    => /\ lastCall.raised # NoError
       /\ lastCall.raised.type \notin DispatchMissErrorTypes
       /\ lastCall.raised.message \notin UnsupportedWireTypeMessages
       /\ lastCall.raised \in {UnpackFailure, DecodeError}
       /\ lastCall.returned = NoValue

C13_Witness ==
    /\ lastCall.op = "convert_from_protobuf"
    /\ lastCall.read_value.full_name = "I16AnalogWaveform"
    /\ lastCall.read_value.corrupt
    /\ lastCall.converter = "I16AnalogWaveformReadConverter"
    /\ lastCall.raised = DecodeError

(* -------------------------------- read --------------------------------- *)
\* The class of the value each wire message type is reconstructed as.
ReconstructedClass(full_name) ==
    CASE full_name \in {"DoubleAnalogWaveform", "I16AnalogWaveform"} -> "AnalogWaveform"
      [] full_name \in {"DoubleComplexWaveform", "I16ComplexWaveform"} -> "ComplexWaveform"
      [] full_name = "DoubleSpectrum" -> "Spectrum"
      [] full_name = "DigitalWaveform" -> "DigitalWaveform"
      [] full_name = "Vector" -> "Vector"
      [] full_name = "DoubleXYData" -> "DoubleXYData"
      [] OTHER -> "None"

\* A read_data call that got an envelope back from the moniker service.
ReadGotEnvelope ==
    /\ lastCall.op = "read_data"
    /\ lastCall.sentMoniker = 1
    /\ lastCall.transport_ok

ExpectedTypeMismatch == [type |-> "TypeError", message |-> "Expected type"]

\* C14: what a read reconstructs depends on the envelope's type identifier
\* alone. Whatever type the caller expects, an envelope without converter
\* raises the unsupported-type error, one that does not parse raises the
\* unpack error, and any other is reconstructed as the class of its wire
\* type; the expected type is compared only with the reconstructed value.
C14_ConverterChosenByWireTypeOnly ==
    ReadGotEnvelope
    => LET read_value == lastCall.read_value
           class == ReconstructedClass(read_value.full_name)
       IN  IF read_value.prefix # data_type_prefix \/ class = "None"
           THEN lastCall.raised.message \in UnsupportedWireTypeMessages
           ELSE IF read_value.corrupt
           THEN lastCall.raised = DecodeError
           ELSE \/ /\ lastCall.raised = NoError
                   /\ lastCall.returned.type = class
                \/ /\ lastCall.raised = ExpectedTypeMismatch
                   /\ lastCall.expected_type \notin {NoType, class}
                   /\ lastCall.returned = NoValue

C14_Witness ==
    /\ ReadGotEnvelope
    /\ lastCall.expected_type = "AnalogWaveform"
    /\ lastCall.read_value.full_name = "I16AnalogWaveform"
    /\ lastCall.raised = NoError
    /\ lastCall.returned = [type |-> "AnalogWaveform", dtype |-> "int16"]

\* C15: a read resolves its connection before the remote read, makes one
\* remote read before it unpacks, and compares the reconstructed value with
\* the expected type exactly when the caller gave one: it raises the
\* type-mismatch error instead of returning the value when they differ.
C15_ReadStepsInOrder ==
    /\ \A t \in Threads :
          pc[t] = "remote"
          => /\ rd[t].moniker_client \in 1..Len(monikerClients)
             /\ rd[t].parsed_service_location \in DOMAIN _moniker_clients_by_service_location
             /\ _moniker_clients_by_service_location[rd[t].parsed_service_location]
                   = rd[t].moniker_client
    /\ lastCall.op = "read_data" => lastCall.sentMoniker \in {0, 1}
    /\ (lastCall.op = "read_data" /\ lastCall.sentMoniker = 1 /\ ~lastCall.transport_ok)
       => lastCall.raised = RpcError
    /\ ReadGotEnvelope
       => LET read_value == lastCall.read_value
              class == ReconstructedClass(read_value.full_name)
              reconstructed == /\ read_value.prefix = data_type_prefix
                               /\ class # "None"
                               /\ ~read_value.corrupt
          IN  /\ lastCall.raised = ExpectedTypeMismatch
                 <=> /\ reconstructed
                     /\ lastCall.expected_type # NoType
                     /\ lastCall.expected_type # class
              /\ (reconstructed /\ lastCall.expected_type \in {NoType, class})
                 => lastCall.raised = NoError /\ lastCall.returned.type = class
              /\ lastCall.raised # NoError => lastCall.returned = NoValue

C15_Witness ==
    /\ ReadGotEnvelope
    /\ lastCall.expected_type = "Vector"
    /\ lastCall.read_value.full_name = "DoubleAnalogWaveform"
    /\ lastCall.raised = ExpectedTypeMismatch
    /\ lastCall.returned = NoValue
    /\ Len(monikerClients) = 1

\* C16: when the remote call of a publish or of a read raises, the caller
\* gets that same error and no result, and the remote call was made once.
C16_TransportErrorPassesThrough ==
    /\ lastCall.op \in {"publish_measurement", "read_data"}
       => lastCall.sentStore + lastCall.sentMoniker <= 1
    /\ ( /\ lastCall.op = "read_data"
         /\ lastCall.read_value # NoEnvelope
         /\ ~lastCall.transport_ok )
       => /\ lastCall.raised = RpcError
          /\ lastCall.returned = NoValue
          /\ lastCall.sentMoniker = 1
    /\ ( /\ PublishCompleted
         /\ ~lastCall.transport_ok
         /\ lastCall.raised.type \notin {"TypeError", "ValueError"} )
       => /\ lastCall.raised = RpcError
          /\ lastCall.returned = NoValue
          /\ lastCall.sentStore = 1
    /\ ( /\ lastCall.op \in {"publish_condition_batch", "publish_measurement_batch"}
         /\ ~lastCall.transport_ok
         /\ lastCall.raised.type \notin {"TypeError", "ValueError"} )
       => /\ lastCall.raised = RpcError
          /\ lastCall.returned = NoValue
          /\ lastCall.sentStore = 1
    /\ lastCall.raised = RpcError => ~lastCall.transport_ok

C16_Witness ==
    /\ lastCall.op = "read_data"
    /\ lastCall.read_value # NoEnvelope
    /\ ~lastCall.transport_ok
    /\ lastCall.raised = RpcError
    /\ lastCall.sentMoniker = 1

(* ---------------------------- batch publish ---------------------------- *)
BatchPublishCompleted ==
    /\ lastCall.op \in {"publish_condition_batch", "publish_measurement_batch"}
    /\ ~lastCall.afterClose

EmptySequenceError ==
    [type |-> "ValueError", message |-> "Cannot publish an empty Iterable."]

UnsupportedIterableMessage == "Unsupported iterable"

\* C17: a batch publish of an empty sequence raises the empty-sequence error
\* ("Cannot publish an empty Iterable.") and sends nothing.
C17_EmptySequenceRaisesEmptyError ==
    ( /\ BatchPublishCompleted
      /\ lastCall.value.type \in {"list", "tuple"}
      /\ lastCall.value.elements = <<>> )
    => /\ lastCall.raised = EmptySequenceError
       /\ lastCall.sentStore = 0

\* C18: a batch publish of a sequence of sequences raises the
\* unsupported-iterable TypeError ("Unsupported iterable: ..."), which is not
\* the error a single-value publish raises for an unsupported value type.
C18_NestedSequenceRaisesUnsupportedIterable ==
    ( /\ BatchPublishCompleted
      /\ lastCall.value.type \in {"list", "tuple"}
      /\ lastCall.value.elements = <<"list", "list">> )
    => /\ lastCall.raised.type = "TypeError"
       /\ lastCall.raised.message = UnsupportedIterableMessage
       /\ lastCall.raised.message \notin UnsupportedValueTypeMessages
       /\ lastCall.sentStore = 0

\* C19: a batch publish of a plain sequence of one primitive kind sends the
\* request that the Vector of the same elements with empty units gets.
C19_PlainSequencePublishedAsVector ==
    ( /\ BatchPublishCompleted
      /\ lastCall.transport_ok
      /\ lastCall.value.type \in {"list", "tuple"}
      /\ \E k \in PrimitiveKinds : lastCall.value.elements = <<k, k>> )
    => /\ lastCall.raised = NoError
       /\ lastCall.sentStore = 1
       /\ lastCall.request.scalar_values =
             vector_to_protobuf([type |-> "Vector", elements |-> lastCall.value.elements,
                                 units |-> ""])

(* --------------------------- waveform dtypes --------------------------- *)
\* The request member for each waveform class and element dtype.
WaveformMessage(type, dtype) ==
    CASE type = "AnalogWaveform" /\ dtype = "float64" -> "double_analog_waveform"
      [] type = "AnalogWaveform" /\ dtype = "int16" -> "i16_analog_waveform"
      [] type = "ComplexWaveform" /\ dtype = "complex128" -> "double_complex_waveform"
      [] type = "ComplexWaveform" /\ dtype = "ComplexInt32Base" -> "i16_complex_waveform"
      [] OTHER -> "None"

PopulatedWaveform ==
    /\ lastCall.op \in {"populate_publish_measurement_request_value",
                        "_populate_publish_measurement_request_value"}
    /\ lastCall.value.type \in {"AnalogWaveform", "ComplexWaveform"}

\* C20: populating a request with an analog or complex waveform sets the
\* message of the waveform's element dtype (float64 -> double analog, int16 ->
\* i16 analog, complex128 -> double complex, ComplexInt32Base -> i16 complex)
\* and no other; a waveform of any other dtype raises and sets no message.
C20_WaveformMessageFollowsDtype ==
    PopulatedWaveform
    => LET message == WaveformMessage(lastCall.value.type, lastCall.value.dtype)
       IN  IF message = "None"
           THEN /\ lastCall.raised.type = "TypeError"
                /\ lastCall.request = EmptyRequest
           ELSE /\ lastCall.raised = NoError
                /\ lastCall.request.value_case = message

C20_Witness ==
    /\ lastCall.op = "populate_publish_measurement_request_value"
    /\ lastCall.converter = "AnalogWaveformPublishConverter"
    /\ lastCall.value.dtype = "int16"
    /\ lastCall.raised = NoError
    /\ lastCall.request.value_case = "i16_analog_waveform"

(* -------------------------- condition publish -------------------------- *)
\* The classes that can be published as a measurement but not as a condition.
NotAConditionClasses ==
    {"Vector", "AnalogWaveform", "ComplexWaveform", "Spectrum", "DigitalWaveform"}

\* C21: publishing a Vector, a waveform or a spectrum as a single condition
\* raises TypeError, leaves the request's value unset and sends nothing.
C21_UnsupportedConditionKindRaises ==
    ( /\ lastCall.op \in {"populate_publish_condition_request_value", "publish_condition"}
      /\ lastCall.value.type \in NotAConditionClasses )
    => /\ lastCall.raised.type = "TypeError"
       /\ lastCall.request = EmptyConditionRequest
       /\ lastCall.sentStore = 0
       /\ lastCall.returned = NoValue

C21_Witness ==
    /\ lastCall.op = "populate_publish_condition_request_value"
    /\ lastCall.value.type = "Vector"
    /\ lastCall.converter = "VectorPublishConverter"
    /\ lastCall.raised.message = "Invalid condition request value type"
    /\ lastCall.request = EmptyConditionRequest

(* ------------------------------ round trip ----------------------------- *)
\* A round trip of a value that has a publish converter and a dtype it takes.
RoundTripCompleted ==
    /\ lastCall.op = "round_trip"
    /\ lastCall.request.value_case # "None"

C23_RegistryNeverMutated ==
    /\ readConverterRegistry = _READ_CONVERTERS_BY_PROTOBUF_TYPE
    /\ \A t \in Threads :
          lookups[t].pc = "convert"
          => /\ TypeName(lookups[t].protobuf_any) \in DOMAIN _READ_CONVERTERS_BY_PROTOBUF_TYPE
             /\ lookups[t].converter =
                   _READ_CONVERTERS_BY_PROTOBUF_TYPE[TypeName(lookups[t].protobuf_any)]

\* Two lookups in progress at once, after a lookup that missed.
C23_Witness ==
    /\ lookups[1].pc = "convert"
    /\ lookups[2].pc = "convert"
    /\ lookups[1].protobuf_any # lookups[2].protobuf_any
    /\ lastCall.op = "convert_from_protobuf"
    /\ lastCall.raised.type = "KeyError"

(* ---------------------------- decorated tests -------------------------- *)
\* The events of the last decorated call that are of one kind.
EventsOfKind(kind) == SelectSeq(lastTest.events, LAMBDA e : e.kind = kind)

\* C24: a call of a decorated function that no service call failed runs the
\* body exactly once and returns the body's return value, also when no
\* DigitalThreadPublisher is among the arguments.
C24_DecoratedCallRunsBodyOnce ==
    (lastTest.func # "None" /\ lastTest.raised # RpcError)
    => /\ lastTest.raised = NoError
       /\ Len(EventsOfKind("body")) = 1
       /\ lastTest.returned = lastTest.returns

\* The id of the step the service made for a test name (0 when it made none).
StepIdOf(name) ==
    IF \E i \in 1..Len(createdSteps) : createdSteps[i] = name
    THEN CHOOSE i \in 1..Len(createdSteps) : createdSteps[i] = name
    ELSE 0

\* C26: no test name has two steps, and in every call of a decorated test
\* each parameter condition is published with, and the body runs with,
\* current_step_id equal to the id of the step made for that test's name; a
\* call for a name that has a step makes none.
C26_OneStepPerTestAndCurrentStepSet ==
    /\ \A i, j \in 1..Len(createdSteps) : createdSteps[i] = createdSteps[j] => i = j
    /\ \A n \in DOMAIN _step_ids_by_test : _step_ids_by_test[n] = StepIdOf(n)
    /\ \A k \in 1..Len(lastTest.events) :
          lastTest.events[k].kind \in {"publish_condition", "body"}
          => /\ StepIdOf(lastTest.func) # 0
             /\ lastTest.events[k].step_id = StepIdOf(lastTest.func)
             /\ current_step_id = StepIdOf(lastTest.func)
    /\ \A k \in 1..Len(lastTest.events) :
          lastTest.events[k].kind = "create_step" => k = 1

\* A parameterized test called again after another test made its step: no
\* step is made, and the condition carries the first step's id.
C26_Witness ==
    /\ lastTest.func = "test_voltage"
    /\ lastTest.raised = NoError
    /\ EventsOfKind("create_step") = <<>>
    /\ Len(EventsOfKind("publish_condition")) = 1
    /\ Len(createdSteps) = 2
    /\ createdSteps[1] = "test_voltage"
    /\ lastTest.events[1].step_id = 1
    /\ current_step_id = 1

(* -------------------------------- token -------------------------------- *)
\* The token the last get_token returned was taken, in that call, from the
\* environment override or from the CLI.
ObtainedInCall ==
    \/ is_nonempty(lastToken.env_token) /\ lastToken.returned = lastToken.env_token
    \/ lastToken.nigel_found /\ lastToken.returned = lastToken.cli_result

\* C25: get_token either returns a non-empty token or raises RuntimeError; a
\* token it returns from the cache is a JWT whose exp lies more than 60
\* seconds after the time of the call, and in every other case the token
\* was obtained in the call.
C25_CachedTokenOnlyWhenCurrent ==
    lastToken.op = "get_token"
    => /\ (lastToken.raised = NoError) <=> is_nonempty(lastToken.returned)
       /\ lastToken.returned # CliFailed
       /\ lastToken.raised # NoError => lastToken.raised.type = "RuntimeError"
       /\ (lastToken.raised = NoError /\ ~ObtainedInCall)
          => /\ lastToken.returned = lastToken.cached_before
             /\ lastToken.cached_before.form = "jwt"
             /\ lastToken.now + 60 < lastToken.cached_before.exp
       /\ _cached_token \in {lastToken.cached_before, lastToken.cli_result}

\* A cached token returned one second before it enters the safety buffer.
C25_Witness ==
    /\ lastToken.op = "get_token"
    /\ ~is_nonempty(lastToken.env_token)
    /\ ~lastToken.nigel_found
    /\ lastToken.returned = lastToken.cached_before
    /\ lastToken.now > 0
    /\ lastToken.now + 61 = lastToken.cached_before.exp

(* --------------------------- data store context ------------------------ *)
\* C27: after initialize followed by close, each of the six environment
\* variables has the value it had before that initialize, and a variable that
\* was not set then is not set.
C27_ExitRestoresEnvironment ==
    (contextLog.last = "close" /\ contextLog.previous = "initialize")
    => \A v \in EnvironmentVariables : environ[v] = contextLog.at_entry[v]

\* One context entered and exited with variables that were unset, empty and
\* set before.
C27_Witness ==
    /\ contextLog.last = "close"
    /\ contextLog.previous = "initialize"
    /\ contextLog.initializes = 1
    /\ environ["NIDiscovery_ClusterId"] = NotSet
    /\ environ["DataStoreSettings__IngestDirectory"] = [set |-> TRUE, value |-> ""]
    /\ environ["DataStoreSettings__DataFilesDirectory"] = [set |-> TRUE, value |-> "original"]

\* C30: after any sequence of initialize and close calls that ends with
\* close, the six environment variables have the values they had before the
\* first initialize.
C30_CloseRestoresFirstEnvironment ==
    (contextLog.last = "close" /\ contextLog.initializes >= 1)
    => \A v \in EnvironmentVariables : environ[v] = contextLog.before_first[v]

(* -------------------------------- XYData ------------------------------- *)
\* A read whose envelope is a DoubleXYData message that arrived and parses.
ReadGotXYData ==
    /\ lastCall.op = "read_data"
    /\ ~lastCall.afterClose
    /\ lastCall.transport_ok
    /\ lastCall.read_value # NoEnvelope
    /\ lastCall.read_value.prefix = data_type_prefix
    /\ lastCall.read_value.full_name = "DoubleXYData"
    /\ ~lastCall.read_value.corrupt

C29_DifferentEndpointsNeverShareConnection ==
    /\ \A t1, t2 \in Resolved :
          rd[t1].service_location.authority # rd[t2].service_location.authority
          => rd[t1].moniker_client # rd[t2].moniker_client
    /\ \A t \in Resolved :
          ~monikerClients[rd[t].moniker_client].injected
          => monikerClients[rd[t].moniker_client].service_location
                = rd[t].service_location.authority

====
